---- MODULE Spec2Model ----
(***************************************************************************)
(* A model of the zubridge middleware crate (packages/middleware/src):     *)
(* the metrics calculator (metrics.rs), the transaction ledger with its    *)
(* periodic cleanup task (transaction.rs), the telemetry middleware with   *)
(* its bounded history (telemetry.rs), the pipeline orchestrator           *)
(* (middleware.rs) and the WebSocket server of the viewers (websocket.rs). *)
(*                                                                         *)
(* One module, several specifications over the same variables; each        *)
(* specification moves the variables of one component and leaves the       *)
(* others at their initial values:                                         *)
(*   SpecMetrics   calculate_from_transaction on every bounded transaction *)
(*   SpecLedger    record_* and calculate_metrics of TransactionManager    *)
(*   SpecCleanup   the cleanup task against a ledger that is being used    *)
(*   SpecTelemetry the hooks of TelemetryMiddleware on the bounded history *)
(*   SpecPipeline  concurrent process_action calls over a middleware list  *)
(*   SpecWebSocket a viewer connection against a producer of entries       *)
(*   SpecTracking  the lifecycle calls of ZubridgeMiddleware and a ledger  *)
(*   SpecExtract   extract_from_context on every bounded context           *)
(*   SpecTiming    the timing of one process_action call                   *)
(*   SpecSerialize serialization::serialize in both formats                *)
(*   SpecStart     WebSocketServer::start: bind, fallback, accept loop     *)
(*   SpecLocks     the lock operations of concurrent calls, with fairness  *)
(*   SpecFanOut    a viewer connection against two concurrent producers    *)
(*   SpecConcurrentActions  process_action calls without set_state         *)
(*                                                                         *)
(* Conventions.  Option<T> is a sequence of length at most one: None is    *)
(* <<>> and Some(x) is <<x>>.  A duration in milliseconds (an f64 obtained *)
(* as nanoseconds / 1_000_000.0) is the exact rational <<n, d>> = n / d.   *)
(* Timestamps of the model are far below 2^53, where the code's            *)
(* `u128 as f64` conversion is exact.                                      *)
(***************************************************************************)
EXTENDS Integers, Sequences, FiniteSets, TLC

VARIABLES
    m_tx,           \* metrics: the PerformanceTransaction handed to the calculator
    m_pc,           \* metrics: "ready" before the call, "done" after it
    m_result,       \* metrics: the Result<Option<Metrics>> the call returned
    transactions,   \* ledger: TransactionManager.transactions, action id -> transaction
    now,            \* the system clock, nanoseconds since the epoch
    ledger_ret,     \* ledger: what the collaborator's last tracking call returned
    cl_pc,          \* cleanup task: "idle", "scan", "remove" or "cap"
    cl_now,         \* cleanup task: `now` as read at the start of the cycle
    to_remove,      \* cleanup task: the ids the scan marked
    cl_clean,       \* history variable: no ledger operation since the cycle started
    log_limit,      \* telemetry: TelemetryConfig.log_limit
    log_history,    \* telemetry: TelemetryMiddleware.log_history
    last_state,     \* telemetry: TelemetryMiddleware.last_state
    t_panicked,     \* telemetry: a call of add_log_entry aborted (panic)
    n_appended,     \* history variable: entries pushed since the history was last empty
    middlewares,    \* pipeline: ZubridgeMiddleware.middlewares, in registration order
    state,          \* pipeline: the shared application state (a JSON value)
    readers,        \* pipeline: the process_action calls holding the state read lock
    pc,             \* pipeline: where each process_action call stands
    in_action,      \* pipeline: the action each call was given
    current_action, \* pipeline: each call's `current_action`
    idx,            \* pipeline: each call's position in the middleware list
    snapshot,       \* pipeline: each call's clone of the state for record_state_update
    result,         \* pipeline: what each call returned, None while it runs
    hook_log,       \* history variable: the hooks and the mutation each call ran
    serialization_format, \* websocket: WebSocketServer.serialization_format
    clients,        \* websocket: WebSocketServer.clients, the registered addresses
    chan,           \* websocket: every message sent on the broadcast channel, oldest first
    a_pc,           \* websocket: the add_log_entry call, "idle" or "broadcast"
    a_entry,        \* websocket: the entry that call pushed and is about to broadcast
    ws_ret,         \* websocket: what the last broadcast() returned
    n_serialized,   \* history variable: calls of serialization::serialize so far
    h_pc,           \* websocket: where each handle_connection call stands
    h_ret,          \* websocket: what each handle_connection call returned
    h_msg,          \* websocket: each connection's initial message, once built
    rx_next,        \* websocket: position in chan of the next message of each `receiver`
    sent,           \* websocket: the messages written to each connection's socket
    w_pc,           \* websocket: each broadcast_task, "none", "recv", "send" or "ended"
    w_msg,          \* websocket: the data each broadcast_task received and is to send
    r_pc,           \* websocket: each client_task, "none", "run" or "ended"
    e_ctx,          \* performance: the Context of the call (metadata, start_time)
    e_config,       \* performance: the telemetry configuration of the call
    e_pc,           \* performance: where the timed process_action call stands
    e_metrics,      \* performance: what extract_from_context returned, once called
    z_in,           \* serialization: the JSON value handed to serialize
    z_out,          \* serialization: the text serialize produced, once called
    bind_address,   \* server: WebSocketServer.bind_address
    s_pc,           \* server: where start() stands
    s_binds,        \* server: the bind attempts of start(), each an address and its outcome
    s_ret,          \* server: what start() returned, None while it runs
    s_spawned,      \* server: the connections accepted and handed to handle_connection
    s_accept_errors,\* server: the accept calls that failed
    l_pc,           \* locks: each task's position in the lock operations of its call, 0 between calls
    l_prog,         \* locks: the lock operations of each task's current call, in program order
    l_held,         \* locks: for every lock, the guards alive, each a task and its mode
    l_queue,        \* locks: for every lock, the waiting acquisitions, oldest first
    f_pc,           \* fan-out: each logging task, "idle" or "broadcast"
    f_entry         \* fan-out: the entry each task pushed and is to broadcast

metricsVars == <<m_tx, m_pc, m_result>>

ledgerVars == <<transactions, now, ledger_ret>>

cleanupVars == <<cl_pc, cl_now, to_remove, cl_clean>>

telemetryVars == <<log_limit, log_history, last_state, t_panicked, n_appended>>

pipelineVars ==
    <<middlewares, state, readers, pc, in_action, current_action, idx, snapshot,
      result, hook_log>>

wsVars ==
    <<serialization_format, clients, chan, a_pc, a_entry, ws_ret, n_serialized,
      h_pc, h_ret, h_msg, rx_next, sent, w_pc, w_msg, r_pc>>

perfVars == <<e_ctx, e_config, e_pc, e_metrics, z_in, z_out>>

startVars == <<bind_address, s_pc, s_binds, s_ret, s_spawned, s_accept_errors>>

lockVars == <<l_pc, l_prog, l_held, l_queue>>

fanVars == <<f_pc, f_entry>>

vars ==
    <<metricsVars, ledgerVars, cleanupVars, telemetryVars, pipelineVars, wsVars, startVars, lockVars, fanVars,
      perfVars>>

----------------------------------------------------------------------------
(* Option<T> *)

None == <<>>

Some(x) == <<x>>

IsSome(o) == o # <<>>

Unwrap(o) == o[1]

----------------------------------------------------------------------------
(* JSON values (serde_json::Value), tagged by their kind.  Object keys and     *)
(* action types are strings, modelled as sequences of characters.             *)


\* Every value carries all four components, so that any two values compare:
\* the kind t, and the number n, the string s or the object map m it holds.
EmptyMap == [x \in {} |-> x]

Obj(map) == [t |-> "object", n |-> 0, s |-> <<>>, m |-> map]

Num(k) == [t |-> "number", n |-> k, s |-> <<>>, m |-> <<>>]

Str(chars) == [t |-> "string", n |-> 0, s |-> chars, m |-> <<>>]

Bool(b) == [t |-> "bool", n |-> IF b THEN 1 ELSE 0, s |-> <<>>, m |-> <<>>]

\* Value::is_object
IsObject(j) == j.t = "object"

\* struct Action
Action(ty, payload, id) ==
    [action_type |-> ty, payload |-> payload, id |-> id,
     source_window_id |-> None]

\* The calls of process_action the pipeline specification runs side by side.
Procs == {"p1", "p2"}

\* The pipeline before any middleware is added and any action is processed.
PipelineRest ==
    /\ middlewares = <<>>
    /\ state = Obj(EmptyMap)
    /\ readers = {}
    /\ pc = [p \in Procs |-> "idle"]
    /\ in_action = [p \in Procs |-> Action(<<>>, None, None)]
    /\ current_action = [p \in Procs |-> None]
    /\ idx = [p \in Procs |-> 1]
    /\ snapshot = [p \in Procs |-> Obj(EmptyMap)]
    /\ result = [p \in Procs |-> None]
    /\ hook_log = [p \in Procs |-> <<>>]

\* The viewer connections the listener accepts, one address each.  The
\* connections share nothing but the registry and the channel, which the
\* producer never reads per viewer, so one connection is followed.
Conns == {"v1"}

\* The WebSocket server before any viewer connects and any entry is broadcast.
WebSocketRest ==
    /\ serialization_format = "Json"
    /\ clients = {}
    /\ chan = <<>>
    /\ a_pc = "idle"
    /\ a_entry = None
    /\ ws_ret = None
    /\ n_serialized = 0
    /\ h_pc = [c \in Conns |-> "new"]
    /\ h_ret = [c \in Conns |-> None]
    /\ h_msg = [c \in Conns |-> None]
    /\ rx_next = [c \in Conns |-> 1]
    /\ sent = [c \in Conns |-> <<>>]
    /\ w_pc = [c \in Conns |-> "none"]
    /\ w_msg = [c \in Conns |-> None]
    /\ r_pc = [c \in Conns |-> "none"]

\* No call is timed and nothing is serialized: a fresh context without
\* metadata, the default performance configuration.
PerfRest ==
    /\ e_ctx = [metadata |-> <<>>, start_time |-> None]
    /\ e_config = [measure_performance |-> TRUE, include_in_logs |-> TRUE,
                   enabled |-> TRUE, detail |-> "Medium"]
    /\ e_pc = "idle"
    /\ e_metrics = None
    /\ z_in = None
    /\ z_out = None

\* The tasks of the lock specification and the four tokio RwLocks they share.
LockTasks == {"p1", "p2", "s1", "c1", "v1"}

Locks == {"state", "ledger", "history", "clients"}

\* The tasks that log entries concurrently.
FanTasks == {"t1", "t2"}

\* No task is inside add_log_entry.
FanRest ==
    /\ f_pc = [t \in FanTasks |-> "idle"]
    /\ f_entry = [t \in FanTasks |-> None]

\* No call is in progress: every lock is free and nobody waits.
LockRest ==
    /\ l_pc = [t \in LockTasks |-> 0]
    /\ l_prog = [t \in LockTasks |-> <<>>]
    /\ l_held = [l \in Locks |-> {}]
    /\ l_queue = [l \in Locks |-> <<>>]

\* start() has not been called on a server built by WebSocketServer::new.
StartRest ==
    /\ bind_address = "127.0.0.1"
    /\ s_pc = "idle"
    /\ s_binds = <<>>
    /\ s_ret = None
    /\ s_spawned = 0
    /\ s_accept_errors = 0

----------------------------------------------------------------------------
(* Metrics calculator: metrics.rs *)

\* The divisor of every nanoseconds-to-milliseconds conversion.
NanosPerMilli == 1000000

\* Timestamps of SpecMetrics lie on a grid of whole milliseconds, 0..MaxTs.
MaxTs == 10

\* `x as f64 / 1_000_000.0`: the exact rational nanos / NanosPerMilli.
Millis(nanos) == <<nanos, NanosPerMilli>>

\* The literal 0.0.
ZeroMillis == <<0, NanosPerMilli>>

\* `m < 0.0` on a duration.
IsNegative(m) == m[1] < 0

\* struct PerformanceTransaction
Transaction(ty, id, d, r, u, a) ==
    [action_type |-> ty, action_id |-> id, dispatch_timestamp |-> d,
     receive_timestamp |-> r, state_update_timestamp |-> u,
     acknowledge_timestamp |-> a]

\* struct Metrics
Metrics(total, deser, proc, upd, ser) ==
    [total_ms |-> total, deserialization_ms |-> deser,
     action_processing_ms |-> proc, state_update_ms |-> upd,
     serialization_ms |-> ser]

\* Result::Ok(v); the calculator has no Err path.
Ok(v) == [ok |-> TRUE, value |-> v]

\* Result::Err carrying a variant of the crate's Error.
Err(e) == [ok |-> FALSE, error |-> e]

\* The unit value of Ok(()); it differs from both values of an Option.
Unit == <<None>>

\* metrics.rs: dispatch_to_receive, the dispatch -> receive phase.
dispatch_to_receive(tx) ==
    Millis(Unwrap(tx.receive_timestamp) - tx.dispatch_timestamp)

\* metrics.rs: receive_to_update; an update before the receive counts as 0.0,
\* a missing update as 0.0.
receive_to_update(tx) ==
    LET upd == tx.state_update_timestamp
        receive_timestamp == Unwrap(tx.receive_timestamp)
    IN  IF IsSome(upd)
        THEN IF Unwrap(upd) < receive_timestamp
             THEN ZeroMillis
             ELSE Millis(Unwrap(upd) - receive_timestamp)
        ELSE ZeroMillis

\* A plausible slip: the last phase measured from the receive timestamp even
\* when a state update was recorded.
update_to_ack_fromReceive(tx) ==
    Millis(Unwrap(tx.acknowledge_timestamp) - Unwrap(tx.receive_timestamp))

\* metrics.rs: update_to_ack; an acknowledge before the update counts as 0.0,
\* a missing update falls back to receive -> acknowledge.
update_to_ack(tx) ==
    LET upd == tx.state_update_timestamp
        ack_timestamp == Unwrap(tx.acknowledge_timestamp)
    IN  IF IsSome(upd)
        THEN IF ack_timestamp < Unwrap(upd)
             THEN ZeroMillis
             ELSE Millis(ack_timestamp - Unwrap(upd))
        ELSE Millis(ack_timestamp - Unwrap(tx.receive_timestamp))

\* metrics.rs: total_time, dispatch -> acknowledge.
total_time(tx) ==
    Millis(Unwrap(tx.acknowledge_timestamp) - tx.dispatch_timestamp)

\* metrics.rs: calculate_from_transaction
calculate_from_transaction(tx) ==
    IF ~IsSome(tx.acknowledge_timestamp) THEN Ok(None)
    ELSE IF ~IsSome(tx.receive_timestamp) THEN Ok(None)
    ELSE IF Unwrap(tx.acknowledge_timestamp) < tx.dispatch_timestamp THEN Ok(None)
    ELSE IF Unwrap(tx.receive_timestamp) < tx.dispatch_timestamp THEN Ok(None)
    ELSE IF \/ IsNegative(total_time(tx))
            \/ IsNegative(dispatch_to_receive(tx))
            \/ IsNegative(receive_to_update(tx))
            \/ IsNegative(update_to_ack(tx))
    THEN Ok(None)
    ELSE Ok(Some(Metrics(total_time(tx), Some(dispatch_to_receive(tx)),
                         Some(receive_to_update(tx)), Some(update_to_ack(tx)),
                         None)))

\* The timestamps SpecMetrics draws from: whole milliseconds, in nanoseconds.
MetricTimestamps == {k * NanosPerMilli : k \in 0..MaxTs}

OptMetricTimestamps == {None} \cup {Some(t) : t \in MetricTimestamps}

MetricsInit ==
    /\ m_tx \in {Transaction(<<"T">>, Some("a"), d, r, u, a) :
                    d \in MetricTimestamps, r \in OptMetricTimestamps,
                    u \in OptMetricTimestamps, a \in OptMetricTimestamps}
    /\ m_pc = "ready"
    /\ m_result = Ok(None)
    /\ transactions = [x \in {} |-> x]
    /\ now = 0
    /\ ledger_ret = <<>>
    /\ cl_pc = "idle"
    /\ cl_now = 0
    /\ to_remove = {}
    /\ cl_clean = FALSE
    /\ log_limit = 0
    /\ log_history = <<>>
    /\ last_state = <<>>
    /\ t_panicked = FALSE
    /\ n_appended = 0
    /\ PipelineRest
    /\ WebSocketRest /\ StartRest /\ LockRest /\ FanRest /\ PerfRest

\* One call of calculate_from_transaction on the drawn transaction.
Calculate ==
    /\ m_pc = "ready"
    /\ m_result' = calculate_from_transaction(m_tx)
    /\ m_pc' = "done"
    /\ UNCHANGED m_tx

MetricsNext ==
    Calculate
       /\ UNCHANGED <<ledgerVars, cleanupVars, telemetryVars, pipelineVars, wsVars, startVars, lockVars, fanVars, perfVars>>

SpecMetrics == MetricsInit /\ [][MetricsNext]_vars

----------------------------------------------------------------------------
(* Transaction ledger: transaction.rs *)

\* The factor of max_age_nanos = max_age_seconds * 1_000_000_000, scaled down so
\* that every timestamp stays inside TLC's 32-bit integers: the cleanup test
\* compares ages with multiples of this factor and nothing else reads it.
NanosPerSecond == 1000

\* The clock of the ledger specifications advances in whole seconds, 0..MaxTicks.
MaxTicks == 3

\* Config.max_age_seconds, scaled down from its default of 300.
max_age_seconds == 1

\* Config.max_transactions, scaled down from its default of 1000.
max_transactions == 1

\* The action ids and action types the collaborator supplies.
ActionIds == {"a", "b"}

LedgerTypes == {<<"T">>}

\* HashMap::insert(id, tx)
MapInsert(map, id, tx) ==
    [x \in DOMAIN map \cup {id} |-> IF x = id THEN tx ELSE map[x]]

\* HashMap::remove over a set of ids
MapRemoveAll(map, ids) == [x \in DOMAIN map \ ids |-> map[x]]

\* TransactionManager::record_dispatch: insert a fresh transaction, replacing
\* whatever is stored under the id.
record_dispatch(txs, id, ty, t) ==
    MapInsert(txs, id, Transaction(ty, Some(id), t, None, None, None))

\* record_receive that inserts a fresh transaction whether or not the id is
\* already in the ledger.
record_receive_alwaysInsert(txs, id, ty, t) ==
    MapInsert(txs, id, Transaction(ty, Some(id), t, Some(t), None, None))

\* TransactionManager::record_receive
record_receive(txs, id, ty, t) ==
    IF id \in DOMAIN txs
    THEN [txs EXCEPT ![id].receive_timestamp = Some(t)]
    ELSE MapInsert(txs, id, Transaction(ty, Some(id), t, Some(t), None, None))

\* record_state_update that creates the transaction it does not find.
record_state_update_createsMissing(txs, id, t) ==
    IF id \in DOMAIN txs
    THEN [txs EXCEPT ![id].state_update_timestamp = Some(t)]
    ELSE MapInsert(txs, id, Transaction(<<"T">>, Some(id), t, None, Some(t), None))

\* TransactionManager::record_state_update
record_state_update(txs, id, t) ==
    IF id \in DOMAIN txs
    THEN [txs EXCEPT ![id].state_update_timestamp = Some(t)]
    ELSE txs

\* record_acknowledgement that drops the transaction it completes.
record_acknowledgement_removes(txs, id, t) == MapRemoveAll(txs, {id})

\* TransactionManager::record_acknowledgement
record_acknowledgement(txs, id, t) ==
    IF id \in DOMAIN txs
    THEN [txs EXCEPT ![id].acknowledge_timestamp = Some(t)]
    ELSE txs

\* calculate_durations that has no Metrics for a phase of no length.
calculate_durations_strict(tx, ack, receive) ==
    LET d2r == Millis(receive - tx.dispatch_timestamp)
        r2u == IF IsSome(tx.state_update_timestamp)
               THEN Millis(Unwrap(tx.state_update_timestamp) - receive)
               ELSE ZeroMillis
        u2a == IF IsSome(tx.state_update_timestamp)
               THEN Millis(ack - Unwrap(tx.state_update_timestamp))
               ELSE Millis(ack - receive)
        total == Millis(ack - tx.dispatch_timestamp)
    IN  IF \/ receive <= tx.dispatch_timestamp
           \/ ack <= receive
           \/ IsNegative(r2u) \/ IsNegative(u2a)
        THEN Ok(None)
        ELSE Ok(Some(Metrics(total, Some(d2r), Some(r2u), Some(u2a), None)))

\* TransactionManager::calculate_metrics, once both the acknowledge and the
\* receive timestamp are known to be present: the phase durations in
\* milliseconds, None when one of them is negative.
calculate_durations(tx, ack, receive) ==
    LET d2r == Millis(receive - tx.dispatch_timestamp)
        r2u == IF IsSome(tx.state_update_timestamp)
               THEN Millis(Unwrap(tx.state_update_timestamp) - receive)
               ELSE ZeroMillis
        u2a == IF IsSome(tx.state_update_timestamp)
               THEN Millis(ack - Unwrap(tx.state_update_timestamp))
               ELSE Millis(ack - receive)
        total == Millis(ack - tx.dispatch_timestamp)
    IN  IF \/ IsNegative(total) \/ IsNegative(d2r)
           \/ IsNegative(r2u) \/ IsNegative(u2a)
        THEN Ok(None)
        ELSE Ok(Some(Metrics(total, Some(d2r), Some(r2u), Some(u2a), None)))

\* calculate_metrics that takes the dispatch timestamp for a receive timestamp
\* that is absent.
calculate_metrics_receiveDefaulted(txs, id) ==
    IF id \in DOMAIN txs
    THEN LET tx == txs[id]
         IN  IF ~IsSome(tx.acknowledge_timestamp) THEN Err("MissingData")
             ELSE calculate_durations(tx, Unwrap(tx.acknowledge_timestamp),
                     IF IsSome(tx.receive_timestamp)
                     THEN Unwrap(tx.receive_timestamp)
                     ELSE tx.dispatch_timestamp)
    ELSE Ok(None)

\* TransactionManager::calculate_metrics: MissingData when the acknowledge or
\* the receive timestamp of the transaction is absent; Ok(None) when the ledger
\* has no transaction under the id.
calculate_metrics(txs, id) ==
    IF id \in DOMAIN txs
    THEN LET tx == txs[id]
         IN  IF ~IsSome(tx.acknowledge_timestamp) THEN Err("MissingData")
             ELSE IF ~IsSome(tx.receive_timestamp) THEN Err("MissingData")
             ELSE calculate_durations(tx, Unwrap(tx.acknowledge_timestamp),
                                      Unwrap(tx.receive_timestamp))
    ELSE Ok(None)

\* A ledger operation disturbs the cleanup cycle that is under way.
Disturb == cl_clean' = FALSE

\* SystemTime::now() moves on by a second.
Tick ==
    /\ now < MaxTicks * NanosPerSecond
    /\ now' = now + NanosPerSecond
    /\ UNCHANGED <<transactions, ledger_ret, cl_clean>>

RecordDispatch(id, ty) ==
    /\ transactions' = record_dispatch(transactions, id, ty, now)
    /\ ledger_ret' = Some(Ok(Unit))
    /\ Disturb
    /\ UNCHANGED now

RecordReceive(id, ty) ==
    /\ transactions' = record_receive(transactions, id, ty, now)
    /\ ledger_ret' = Some(Ok(Unit))
    /\ Disturb
    /\ UNCHANGED now

RecordStateUpdate(id) ==
    /\ transactions' = record_state_update(transactions, id, now)
    /\ ledger_ret' = Some(Ok(Unit))
    /\ Disturb
    /\ UNCHANGED now

RecordAcknowledgement(id) ==
    /\ transactions' = record_acknowledgement(transactions, id, now)
    /\ ledger_ret' = Some(Ok(Unit))
    /\ Disturb
    /\ UNCHANGED now

\* One call of calculate_metrics: it reads the ledger under the read lock.
CalculateMetrics(id) ==
    /\ ledger_ret' = Some(calculate_metrics(transactions, id))
    /\ UNCHANGED <<transactions, now, cl_clean>>

LedgerRest ==
    /\ transactions = EmptyMap
    /\ now = 0
    /\ ledger_ret = None

CleanupRest ==
    /\ cl_pc = "idle"
    /\ cl_now = 0
    /\ to_remove = {}
    /\ cl_clean = FALSE

MetricsRest ==
    /\ m_tx = Transaction(<<"T">>, Some("a"), 0, None, None, None)
    /\ m_pc = "ready"
    /\ m_result = Ok(None)

TelemetryRest ==
    /\ log_limit = 0
    /\ log_history = <<>>
    /\ last_state = None
    /\ t_panicked = FALSE
    /\ n_appended = 0

\* What a ledger operation of the collaborator leaves alone.
LedgerFrame ==
    UNCHANGED <<metricsVars, cl_pc, cl_now, to_remove, telemetryVars, pipelineVars,
                wsVars, startVars, lockVars, fanVars, perfVars>>

LedgerInit ==
    /\ MetricsRest /\ LedgerRest /\ CleanupRest /\ TelemetryRest /\ PipelineRest
    /\ WebSocketRest /\ StartRest /\ LockRest /\ FanRest /\ PerfRest

LedgerNext ==
    \/ \E id \in ActionIds, ty \in LedgerTypes :
          RecordDispatch(id, ty) /\ LedgerFrame
    \/ \E id \in ActionIds, ty \in LedgerTypes :
          RecordReceive(id, ty) /\ LedgerFrame
    \/ \E id \in ActionIds : RecordStateUpdate(id) /\ LedgerFrame
    \/ \E id \in ActionIds : RecordAcknowledgement(id) /\ LedgerFrame
    \/ \E id \in ActionIds : CalculateMetrics(id) /\ LedgerFrame
    \/ Tick /\ LedgerFrame

SpecLedger == LedgerInit /\ [][LedgerNext]_vars

----------------------------------------------------------------------------
(* The cleanup task: TransactionManager::start_cleanup_task *)

\* age = now.saturating_sub(tx.dispatch_timestamp)
Age(tx, t) ==
    IF t >= tx.dispatch_timestamp THEN t - tx.dispatch_timestamp ELSE 0

max_age_nanos == max_age_seconds * NanosPerSecond

\* A plausible slip: `>=` for `>` in the age test of completed transactions.
ShouldRemove_atAge(tx, t) ==
    \/ IsSome(tx.acknowledge_timestamp) /\ Age(tx, t) >= max_age_nanos
    \/ Age(tx, t) > max_age_nanos * 2

\* The scan's test: complete and older than max_age, or older than 2 * max_age.
ShouldRemove(tx, t) ==
    \/ IsSome(tx.acknowledge_timestamp) /\ Age(tx, t) > max_age_nanos
    \/ Age(tx, t) > max_age_nanos * 2

\* interval.tick() fires; the task reads the clock.
CleanupBegin ==
    /\ cl_pc = "idle"
    /\ cl_pc' = "scan"
    /\ cl_now' = now
    /\ to_remove' = {}
    /\ cl_clean' = TRUE
    /\ UNCHANGED ledgerVars

\* Under the read lock: collect the ids to remove.
CleanupScan ==
    /\ cl_pc = "scan"
    /\ to_remove' = {id \in DOMAIN transactions :
                        ShouldRemove(transactions[id], cl_now)}
    /\ cl_pc' = "remove"
    /\ UNCHANGED <<ledgerVars, cl_now, cl_clean>>

\* Under the write lock: remove the collected ids (skipped when there are none).
CleanupRemove ==
    /\ cl_pc = "remove"
    /\ transactions' = MapRemoveAll(transactions, to_remove)
    /\ cl_pc' = "cap"
    /\ UNCHANGED <<now, ledger_ret, cl_now, to_remove, cl_clean>>

\* The ledgers `sort_by_key(dispatch_timestamp); truncate(max_transactions)`
\* can leave: the first max_transactions of an ascending order.  The order of
\* equal keys follows HashMap::drain, which is arbitrary.
Truncated(txs) ==
    {kept \in SUBSET DOMAIN txs :
        /\ Cardinality(kept) = max_transactions
        /\ \A k \in kept, d \in DOMAIN txs \ kept :
              txs[k].dispatch_timestamp <= txs[d].dispatch_timestamp}

\* Under the write lock: enforce max_transactions; the cycle ends.
CleanupCap ==
    /\ cl_pc = "cap"
    /\ IF Cardinality(DOMAIN transactions) > max_transactions
       THEN \E kept \in Truncated(transactions) :
               transactions' = [x \in kept |-> transactions[x]]
       ELSE UNCHANGED transactions
    /\ cl_pc' = "idle"
    /\ UNCHANGED <<now, ledger_ret, cl_now, to_remove, cl_clean>>

\* What a step of the cleanup task leaves alone.
CleanupFrame == UNCHANGED <<metricsVars, telemetryVars, pipelineVars, wsVars, startVars, lockVars, fanVars, perfVars>>

CleanupInit ==
    /\ MetricsRest /\ LedgerRest /\ CleanupRest /\ TelemetryRest /\ PipelineRest
    /\ WebSocketRest /\ StartRest /\ LockRest /\ FanRest /\ PerfRest

\* The collaborator's calls while the cleanup task runs.  The scan reads only
\* dispatch_timestamp and acknowledge_timestamp, which these operations write.
CleanupNext ==
    \/ \E id \in ActionIds, ty \in LedgerTypes :
          RecordDispatch(id, ty) /\ LedgerFrame
    \/ \E id \in ActionIds, ty \in LedgerTypes :
          RecordReceive(id, ty) /\ LedgerFrame
    \/ \E id \in ActionIds : RecordAcknowledgement(id) /\ LedgerFrame
    \/ Tick /\ LedgerFrame
    \/ CleanupBegin /\ CleanupFrame
    \/ CleanupScan /\ CleanupFrame
    \/ CleanupRemove /\ CleanupFrame
    \/ CleanupCap /\ CleanupFrame

SpecCleanup == CleanupInit /\ [][CleanupNext]_vars

----------------------------------------------------------------------------
(* Telemetry middleware: telemetry.rs.  The configuration modelled has        *)
(* record_state_delta on, record_state_size off, measure_performance off and  *)
(* websocket_port absent (no broadcast server), so add_log_entry ends after   *)
(* the history update.                                                        *)

\* The largest TelemetryConfig.log_limit drawn (the default is 1000).
MaxLogLimit == 2

\* The most entries pushed onto a history before it is cleared.
MaxAppends == 4

\* TelemetryConfig.record_state_delta
record_state_delta == TRUE

\* TelemetryConfig.record_state_size
record_state_size == FALSE

\* TelemetryConfig.measure_performance
measure_performance == FALSE

\* struct TelemetryEntry.  `seq` is a history variable, not a field of the code:
\* the ordinal of the push that stored the entry (0 before it is stored).
TelemetryEntry(ty, action, st, summary, delta, ctx_id, metrics, ts) ==
    [timestamp |-> ts, entry_type |-> ty, action |-> action, state |-> st,
     state_summary |-> summary, state_delta |-> delta, context_id |-> ctx_id,
     processing_metrics |-> metrics, seq |-> 0]

\* The context id of a pipeline Context (a uuid) and of the IPC hooks
\* (format!("ipc-<phase>-{}", id)): the pair <<prefix, id>>.
ContextId(prefix, id) == <<prefix, id>>

\* action.id.as_ref().unwrap_or(&"unknown".to_string())
IdOrUnknown(action) == IF IsSome(action.id) THEN Unwrap(action.id) ELSE "unknown"

\* history.drain(0..start_idx) panics when start_idx exceeds the length.
AddPanics(history, limit) ==
    /\ Len(history) >= limit
    /\ Len(history) - limit + 1 > Len(history)

\* A plausible slip: trimming down to the limit, not to the limit minus one.
add_log_entry_trimToLimit(history, entry, limit) ==
    IF Len(history) > limit
    THEN SubSeq(history, Len(history) - limit + 1, Len(history)) \o <<entry>>
    ELSE history \o <<entry>>

\* A plausible slip: a full history is emptied, not trimmed by the minimum.
add_log_entry_clearWhenFull(history, entry, limit) ==
    IF Len(history) >= limit THEN <<entry>> ELSE history \o <<entry>>

\* TelemetryMiddleware::add_log_entry, the history update: trim to limit - 1
\* entries by one drain of the oldest, then push.
add_log_entry(history, entry, limit) ==
    IF Len(history) >= limit
    THEN LET start_idx == Len(history) - limit + 1
         IN  SubSeq(history, start_idx + 1, Len(history)) \o <<entry>>
    ELSE history \o <<entry>>

\* One call of add_log_entry: the entry is pushed, or the call panics in drain
\* and leaves the history as it was.
AddLogEntry(entry) ==
    IF AddPanics(log_history, log_limit)
    THEN /\ t_panicked' = TRUE
         /\ UNCHANGED <<log_history, n_appended>>
    ELSE /\ log_history' = add_log_entry(log_history,
                               [entry EXCEPT !.seq = n_appended + 1], log_limit)
         /\ n_appended' = n_appended + 1
         /\ UNCHANGED t_panicked

\* TelemetryMiddleware::calculate_state_delta against last_state.
calculate_state_delta(prev, st) ==
    IF ~IsSome(prev) THEN None
    ELSE IF IsObject(Unwrap(prev)) /\ IsObject(st)
    THEN LET prev_map == Unwrap(prev).m
             current_map == st.m
             changed == {k \in DOMAIN current_map :
                            k \notin DOMAIN prev_map \/ prev_map[k] # current_map[k]}
         IN  IF changed = {} THEN None
             ELSE Some(Obj([k \in changed |-> current_map[k]]))
    ELSE None

\* The ActionDispatched entry of before_action.
BeforeEntry(action, ctx_id) ==
    TelemetryEntry("ActionDispatched", Some(action), None, None, None,
                   ctx_id, None, now)

\* The StateUpdated entry of after_action.  processing_metrics is None with
\* measure_performance off, state_summary is None with record_state_size off.
AfterEntry(action, st, ctx_id) ==
    TelemetryEntry("StateUpdated", Some(action), Some(st), None,
                   IF record_state_delta
                   THEN calculate_state_delta(last_state, st) ELSE None,
                   ctx_id, None, now)

\* Middleware::before_action of TelemetryMiddleware (it returns the action).
T_before_action(action, ctx_id) ==
    /\ AddLogEntry(BeforeEntry(action, ctx_id))
    /\ UNCHANGED <<log_limit, last_state>>

\* Middleware::after_action of TelemetryMiddleware.
T_after_action(action, st, ctx_id) ==
    /\ AddLogEntry(AfterEntry(action, st, ctx_id))
    /\ UNCHANGED <<log_limit, last_state>>

\* Middleware::record_action_dispatch of TelemetryMiddleware.
T_record_action_dispatch(action) ==
    /\ AddLogEntry(TelemetryEntry("ActionDispatched", Some(action), None, None,
           None, ContextId("ipc-dispatch-", IdOrUnknown(action)), None, now))
    /\ UNCHANGED <<log_limit, last_state>>

\* Middleware::record_action_received of TelemetryMiddleware.
T_record_action_received(action) ==
    /\ AddLogEntry(TelemetryEntry("ActionDispatched", Some(action), None, None,
           None, ContextId("ipc-receive-", IdOrUnknown(action)), None, now))
    /\ UNCHANGED <<log_limit, last_state>>

\* The StateUpdated entry of record_state_update.
StateUpdateEntry(action, st) ==
    TelemetryEntry("StateUpdated", Some(action), Some(st), None, None,
                   ContextId("ipc-update-", IdOrUnknown(action)), None, now)

\* Middleware::record_state_update of TelemetryMiddleware.
T_record_state_update(action, st) ==
    /\ AddLogEntry(StateUpdateEntry(action, st))
    /\ UNCHANGED <<log_limit, last_state>>

\* json!({ "action_id": action_id, "acknowledged": true })
AckState(action_id) ==
    Obj([k \in {<<"action_id">>, <<"acknowledged">>} |->
            IF k = <<"action_id">> THEN Str(<<action_id>>) ELSE Bool(TRUE)])

\* Middleware::record_action_acknowledgement of TelemetryMiddleware.
T_record_action_acknowledgement(action_id) ==
    /\ AddLogEntry(TelemetryEntry("StateUpdated",
           Some(Action(<<"ACTION_ACKNOWLEDGED">>,
                       Some(Obj([k \in {<<"action_id">>} |-> Str(<<action_id>>)])),
                       Some(action_id))),
           Some(AckState(action_id)), None, None,
           ContextId("ipc-ack-", action_id), None, now))
    /\ UNCHANGED <<log_limit, last_state>>

\* TelemetryMiddleware::track_action_acknowledged_with_transaction
T_track_action_acknowledged_with_transaction(action_id, tx) ==
    LET processing_metrics == calculate_from_transaction(tx).value
    IN  /\ AddLogEntry(TelemetryEntry("StateUpdated",
               Some(Action(tx.action_type,
                      Some(Obj([k \in {<<"action_id">>, <<"has_metrics">>} |->
                                 IF k = <<"action_id">> THEN Str(<<action_id>>)
                                 ELSE Bool(IsSome(processing_metrics))])),
                      Some(action_id))),
               Some(AckState(action_id)), None, None,
               ContextId("ipc-ack-", action_id), processing_metrics, now))
        /\ UNCHANGED <<log_limit, last_state>>

\* TelemetryMiddleware::clear_history
T_clear_history ==
    /\ log_history' = <<>>
    /\ n_appended' = 0
    /\ UNCHANGED <<log_limit, last_state, t_panicked>>

\* The inputs of SpecTelemetry.
KeyX == <<"x">>

KeyY == <<"y">>

TelemetryStates ==
    { Obj(EmptyMap),
      Obj([k \in {KeyX} |-> Num(1)]),
      Obj([k \in {KeyX} |-> Num(2)]),
      Obj([k \in {KeyX, KeyY} |-> Num(1)]),
      Num(1) }

TelemetryActions ==
    { Action(<<"S", "E", "T">>, Some(Obj([k \in {KeyX} |-> Num(1)])), Some("a")),
      Action(<<"P", "I", "N", "G">>, None, None) }

TelemetryContexts == {ContextId("uuid", "c1"), ContextId("uuid", "c2")}

TelemetryTransactions ==
    { Transaction(<<"S", "E", "T">>, Some("a"), 0, Some(0), Some(0), Some(0)),
      Transaction(<<"S", "E", "T">>, Some("a"), 0, None, None, None) }

TelemetryInit ==
    /\ MetricsRest /\ LedgerRest /\ CleanupRest /\ PipelineRest /\ WebSocketRest /\ StartRest /\ LockRest /\ FanRest /\ PerfRest
    /\ log_limit \in 0..MaxLogLimit
    /\ log_history = <<>>
    /\ last_state = None
    /\ t_panicked = FALSE
    /\ n_appended = 0

\* What a call on the telemetry middleware leaves alone.
TelemetryFrame ==
    UNCHANGED <<metricsVars, ledgerVars, cleanupVars, pipelineVars, wsVars, startVars, lockVars, fanVars, perfVars>>

\* A call that appends: the collaborator makes at most MaxAppends of them
\* before it clears the history.
TelemetryCall == n_appended < MaxAppends /\ TelemetryFrame

TelemetryNext ==
    \/ \E a \in TelemetryActions, c \in TelemetryContexts :
          T_before_action(a, c) /\ TelemetryCall
    \/ \E a \in TelemetryActions, s \in TelemetryStates, c \in TelemetryContexts :
          T_after_action(a, s, c) /\ TelemetryCall
    \/ \E a \in TelemetryActions : T_record_action_dispatch(a) /\ TelemetryCall
    \/ \E a \in TelemetryActions : T_record_action_received(a) /\ TelemetryCall
    \/ \E a \in TelemetryActions, s \in TelemetryStates :
          T_record_state_update(a, s) /\ TelemetryCall
    \/ \E id \in ActionIds : T_record_action_acknowledgement(id) /\ TelemetryCall
    \/ \E id \in ActionIds, tx \in TelemetryTransactions :
          T_track_action_acknowledged_with_transaction(id, tx) /\ TelemetryCall
    \/ T_clear_history /\ TelemetryFrame

SpecTelemetry == TelemetryInit /\ [][TelemetryNext]_vars

----------------------------------------------------------------------------
(* The pipeline orchestrator: ZubridgeMiddleware::process_action and its      *)
(* collaborators in middleware.rs.  Procs calls run side by side; each call   *)
(* is one async task, so its steps are sequential and the steps of distinct   *)
(* calls interleave at the awaits.                                            *)

\* The longest middleware list registered.
MaxMiddlewares == 2

\* The implementations of the Middleware trait registered: the telemetry
\* middleware (its pre-hook returns the action unchanged, as the trait's
\* default does), one that replaces the action and one that cancels it.
MiddlewareKinds == {"telemetry", "rewrite", "cancel"}

\* ZubridgeMiddleware::new followed by calls of add: new registers at most one
\* TelemetryMiddleware, the one whose history the model holds.
MiddlewareLists ==
    {l \in UNION {[1..n -> MiddlewareKinds] : n \in 0..MaxMiddlewares} :
        Cardinality({i \in DOMAIN l : l[i] = "telemetry"}) <= 1}

\* The replacement a rewriting middleware returns: the action under a type
\* extended by one character.
Rewritten(action) == [action EXCEPT !.action_type = @ \o <<"X">>]

\* Middleware::before_action, by implementation: what the hook returns.
before_action(kind, action) ==
    CASE kind = "cancel" -> None
      [] kind = "rewrite" -> Some(Rewritten(action))
      [] OTHER -> Some(action)

UpperChars ==
    <<"A", "B", "C", "D", "E", "F", "G", "H", "I", "J", "K", "L", "M",
      "N", "O", "P", "Q", "R", "S", "T", "U", "V", "W", "X", "Y", "Z">>

LowerChars ==
    <<"a", "b", "c", "d", "e", "f", "g", "h", "i", "j", "k", "l", "m",
      "n", "o", "p", "q", "r", "s", "t", "u", "v", "w", "x", "y", "z">>

\* str::to_lowercase on one character
to_lowercase(c) ==
    IF \E i \in DOMAIN UpperChars : UpperChars[i] = c
    THEN LowerChars[CHOOSE i \in DOMAIN UpperChars : UpperChars[i] = c]
    ELSE c

\* The synthetic key that keeps the case of the action type.
SyntheticKey_keepsCase(action_type) ==
    [i \in DOMAIN action_type |->
        IF action_type[i] = ":" THEN "_" ELSE action_type[i]]

\* action.action_type.replace(":", "_").to_lowercase()
SyntheticKey(action_type) ==
    [i \in DOMAIN action_type |->
        to_lowercase(IF action_type[i] = ":" THEN "_" ELSE action_type[i])]

LastActionKey == <<"l", "a", "s", "t", "_", "a", "c", "t", "i", "o", "n">>

\* A plausible slip: the update builds the new state from what the action
\* writes and drops the keys other actions wrote.
ApplyAction_dropsOtherKeys(st, action) ==
    IF IsSome(action.payload)
    THEN LET payload == Unwrap(action.payload)
         IN  IF IsObject(payload)
             THEN IF IsObject(st) THEN payload ELSE st
             ELSE Obj([k \in {SyntheticKey(action.action_type)} |-> payload])
    ELSE Obj([k \in {LastActionKey} |-> Str(action.action_type)])

\* The state update of process_action under the write lock.
ApplyAction(st, action) ==
    IF IsSome(action.payload)
    THEN LET payload == Unwrap(action.payload)
         IN  IF IsObject(payload)
             THEN IF IsObject(st)
                  THEN Obj([k \in DOMAIN st.m \cup DOMAIN payload.m |->
                              IF k \in DOMAIN payload.m
                              THEN payload.m[k] ELSE st.m[k]])
                  ELSE st
             ELSE LET key == SyntheticKey(action.action_type)
                  IN  IF IsObject(st)
                      THEN Obj([k \in DOMAIN st.m \cup {key} |->
                                  IF k = key THEN payload ELSE st.m[k]])
                      ELSE Obj([k \in {key} |-> payload])
    ELSE LET value == Str(action.action_type)
         IN  IF IsObject(st)
             THEN Obj([k \in DOMAIN st.m \cup {LastActionKey} |->
                         IF k = LastActionKey THEN value ELSE st.m[k]])
             ELSE Obj([k \in {LastActionKey} |-> value])

\* One record of hook_log: the hook (or the mutation, mw = 0), the middleware
\* it belongs to, the action it was handed and, for a pre-hook, what it returned.
HookRecord(hook, mw, action, returned) ==
    [hook |-> hook, mw |-> mw, action |-> action, returned |-> returned]

\* A plausible slip: every call logs under one context id.
ContextOf_shared(p) == ContextId("uuid", "shared")

\* Context::new(): the id is a fresh uuid, here the name of the call.
ContextOf(p) == ContextId("uuid", p)

\* What the steps of process_action never touch.
PipelineFrame ==
    UNCHANGED <<metricsVars, now, ledger_ret, cleanupVars, log_limit, last_state,
                middlewares, wsVars, startVars, lockVars, fanVars, perfVars>>

\* The actions handed to process_action.
PipelineActions ==
    { Action(<<"S", "E", "T">>, Some(Obj([k \in {KeyX} |-> Num(1)])), Some("a")),
      Action(<<"A", ":", "b">>, Some(Num(2)), None),
      Action(<<"P", "I", "N", "G">>, None, None) }

\* A hook of the telemetry middleware appends its entry; the hooks of the
\* other implementations leave the history alone.
LogStep(kind, entry) ==
    IF kind = "telemetry" THEN AddLogEntry(entry)
    ELSE UNCHANGED <<log_history, n_appended, t_panicked>>

\* The hook panics (in add_log_entry) and the call unwinds.
HookPanics(kind) == kind = "telemetry" /\ AddPanics(log_history, log_limit)

\* The unwinding call drops the read guard it holds and never returns.
Unwind(p) ==
    /\ pc' = [pc EXCEPT ![p] = "panicked"]
    /\ readers' = readers \ {p}

\* A plausible slip: every pre-hook is handed the action the call was given.
PreHookInput_original(p) == in_action[p]

\* `act` of the pre-hook loop: the action the previous pre-hook returned.
PreHookInput(p) == Unwrap(current_action[p])

\* A plausible slip: the cancellation test never fires.
is_cancelled_never(current) == FALSE

\* current_action.is_none()
is_cancelled(current) == ~IsSome(current)

\* process_action up to `self.state.read().await`: the context is created,
\* the read lock taken (no writer holds the lock between steps) and
\* current_action set to the action given.
Start(p, action) ==
    /\ pc[p] = "idle"
    /\ pc' = [pc EXCEPT ![p] = "pre"]
    /\ in_action' = [in_action EXCEPT ![p] = action]
    /\ current_action' = [current_action EXCEPT ![p] = Some(action)]
    /\ idx' = [idx EXCEPT ![p] = 1]
    /\ readers' = readers \cup {p}
    /\ UNCHANGED <<state, snapshot, result, hook_log, transactions,
                   log_history, n_appended, t_panicked>>
    /\ PipelineFrame

\* One turn of the pre-hook loop: before_action of the next middleware.
PreHook(p) ==
    /\ pc[p] = "pre"
    /\ idx[p] <= Len(middlewares)
    /\ IsSome(current_action[p])
    /\ LET kind == middlewares[idx[p]]
           act == PreHookInput(p)
           returned == before_action(kind, act)
       IN  /\ LogStep(kind, BeforeEntry(act, ContextOf(p)))
           /\ hook_log' = [hook_log EXCEPT ![p] =
                  Append(@, HookRecord("before_action", idx[p], act, returned))]
           /\ IF HookPanics(kind)
              THEN Unwind(p) /\ UNCHANGED <<current_action, idx>>
              ELSE /\ current_action' = [current_action EXCEPT ![p] = returned]
                   /\ idx' = [idx EXCEPT ![p] = @ + 1]
                   /\ UNCHANGED <<pc, readers>>
    /\ UNCHANGED <<state, in_action, snapshot, result, transactions>>
    /\ PipelineFrame

\* The loop is over (the list is exhausted or the action was cancelled): a
\* cancelled call returns Ok(()), any other drops the read lock and goes on.
PreEnd(p) ==
    /\ pc[p] = "pre"
    /\ ~(idx[p] <= Len(middlewares) /\ IsSome(current_action[p]))
    /\ readers' = readers \ {p}
    /\ IF is_cancelled(current_action[p])
       THEN /\ pc' = [pc EXCEPT ![p] = "done"]
            /\ result' = [result EXCEPT ![p] = Some(Ok(Unit))]
       ELSE /\ pc' = [pc EXCEPT ![p] = "write"]
            /\ UNCHANGED result
    /\ UNCHANGED <<state, in_action, current_action, idx, snapshot, hook_log,
                   transactions, log_history, n_appended, t_panicked>>
    /\ PipelineFrame

\* The block under `self.state.write().await`: it holds no await, so the lock
\* is taken (no reader left), the state updated and the lock released at once.
Mutate(p) ==
    /\ pc[p] = "write"
    /\ readers = {}
    /\ IF IsSome(current_action[p])
       THEN /\ state' = ApplyAction(state, Unwrap(current_action[p]))
            /\ hook_log' = [hook_log EXCEPT ![p] =
                   Append(@, HookRecord("mutate", 0, Unwrap(current_action[p]), None))]
       ELSE UNCHANGED <<state, hook_log>>
    /\ pc' = [pc EXCEPT ![p] = "read"]
    /\ UNCHANGED <<readers, in_action, current_action, idx, snapshot, result,
                   transactions, log_history, n_appended, t_panicked>>
    /\ PipelineFrame

\* `self.state.read().await` before the post-hooks.
AcquireRead(p) ==
    /\ pc[p] = "read"
    /\ pc' = [pc EXCEPT ![p] = "post"]
    /\ readers' = readers \cup {p}
    /\ idx' = [idx EXCEPT ![p] = 1]
    /\ UNCHANGED <<state, in_action, current_action, snapshot, result, hook_log,
                   transactions, log_history, n_appended, t_panicked>>
    /\ PipelineFrame

\* One turn of the post-hook loop: after_action of the next middleware on
\* current_action.as_ref().unwrap(), which panics on None.
PostHook(p) ==
    /\ pc[p] = "post"
    /\ idx[p] <= Len(middlewares)
    /\ IF ~IsSome(current_action[p])
       THEN /\ Unwind(p)
            /\ UNCHANGED <<idx, hook_log, log_history, n_appended, t_panicked>>
       ELSE LET kind == middlewares[idx[p]]
                act == Unwrap(current_action[p])
            IN  /\ LogStep(kind, AfterEntry(act, state, ContextOf(p)))
                /\ hook_log' = [hook_log EXCEPT ![p] =
                       Append(@, HookRecord("after_action", idx[p], act, None))]
                /\ IF HookPanics(kind)
                   THEN Unwind(p) /\ UNCHANGED idx
                   ELSE /\ idx' = [idx EXCEPT ![p] = @ + 1]
                        /\ UNCHANGED <<pc, readers>>
    /\ UNCHANGED <<state, in_action, current_action, snapshot, result, transactions>>
    /\ PipelineFrame

\* The post-hooks are over: the read lock is dropped; an action with an id
\* goes on to transaction tracking, any other call returns Ok(()).
PostEnd(p) ==
    /\ pc[p] = "post"
    /\ idx[p] > Len(middlewares)
    /\ readers' = readers \ {p}
    /\ IF IsSome(current_action[p]) /\ IsSome(Unwrap(current_action[p]).id)
       THEN /\ pc' = [pc EXCEPT ![p] = "track"]
            /\ UNCHANGED result
       ELSE /\ pc' = [pc EXCEPT ![p] = "done"]
            /\ result' = [result EXCEPT ![p] = Some(Ok(Unit))]
    /\ UNCHANGED <<state, in_action, current_action, idx, snapshot, hook_log,
                   transactions, log_history, n_appended, t_panicked>>
    /\ PipelineFrame

\* `self.state.read().await.clone()` and the ledger half of
\* ZubridgeMiddleware::record_state_update.
Track(p) ==
    /\ pc[p] = "track"
    /\ snapshot' = [snapshot EXCEPT ![p] = state]
    /\ transactions' = record_state_update(transactions,
                           Unwrap(Unwrap(current_action[p]).id), now)
    /\ pc' = [pc EXCEPT ![p] = "notify"]
    /\ idx' = [idx EXCEPT ![p] = 1]
    /\ UNCHANGED <<state, readers, in_action, current_action, result, hook_log,
                   log_history, n_appended, t_panicked>>
    /\ PipelineFrame

\* One turn of the notification loop of ZubridgeMiddleware::record_state_update.
Notify(p) ==
    /\ pc[p] = "notify"
    /\ idx[p] <= Len(middlewares)
    /\ LET kind == middlewares[idx[p]]
       IN  /\ LogStep(kind, StateUpdateEntry(Unwrap(current_action[p]), snapshot[p]))
           /\ IF HookPanics(kind)
              THEN Unwind(p) /\ UNCHANGED idx
              ELSE /\ idx' = [idx EXCEPT ![p] = @ + 1]
                   /\ UNCHANGED <<pc, readers>>
    /\ UNCHANGED <<state, in_action, current_action, snapshot, result, hook_log,
                   transactions>>
    /\ PipelineFrame

\* record_state_update returned Ok: process_action returns Ok(()).
NotifyEnd(p) ==
    /\ pc[p] = "notify"
    /\ idx[p] > Len(middlewares)
    /\ pc' = [pc EXCEPT ![p] = "done"]
    /\ result' = [result EXCEPT ![p] = Some(Ok(Unit))]
    /\ UNCHANGED <<state, readers, in_action, current_action, idx, snapshot,
                   hook_log, transactions, log_history, n_appended, t_panicked>>
    /\ PipelineFrame

\* What the tracking calls of ZubridgeMiddleware leave alone.
TrackingFrame ==
    UNCHANGED <<metricsVars, now, cleanupVars, middlewares, wsVars, startVars, lockVars, fanVars, perfVars, state,
                readers, pc, in_action, current_action, idx, snapshot, result,
                hook_log>>

\* A telemetry middleware is registered.
HasTelemetry == \E i \in DOMAIN middlewares : middlewares[i] = "telemetry"

\* record_action_dispatch that tracks an action without id under "unknown".
Z_record_action_dispatch_unknownId(action) ==
    /\ transactions' = record_dispatch(transactions, IdOrUnknown(action),
                                       action.action_type, now)
    /\ ledger_ret' = Some(Ok(Unit))
    /\ UNCHANGED telemetryVars
    /\ TrackingFrame

\* ZubridgeMiddleware::record_action_dispatch: the ledger records the dispatch
\* of an action with an id; the middlewares are not notified.  An action
\* without id is skipped.  The call returns Ok(()).
Z_record_action_dispatch(action) ==
    /\ IF IsSome(action.id)
       THEN transactions' = record_dispatch(transactions, Unwrap(action.id),
                                            action.action_type, now)
       ELSE UNCHANGED transactions
    /\ ledger_ret' = Some(Ok(Unit))
    /\ UNCHANGED telemetryVars
    /\ TrackingFrame

\* ZubridgeMiddleware::record_action_received: for an action with an id the
\* ledger records the receipt and every middleware is notified (the telemetry
\* middleware appends an entry; a panic in that append unwinds the call after
\* the ledger was written).  An action without id is skipped.
Z_record_action_received(action) ==
    /\ IF IsSome(action.id)
       THEN /\ transactions' = record_receive(transactions, Unwrap(action.id),
                                              action.action_type, now)
            /\ IF HasTelemetry
               THEN T_record_action_received(action)
               ELSE UNCHANGED telemetryVars
            /\ ledger_ret' = IF HasTelemetry /\ AddPanics(log_history, log_limit)
                             THEN ledger_ret ELSE Some(Ok(Unit))
       ELSE /\ UNCHANGED <<transactions, telemetryVars>>
            /\ ledger_ret' = Some(Ok(Unit))
    /\ TrackingFrame

\* ZubridgeMiddleware::record_action_acknowledgement: the ledger records the
\* acknowledgement, the transaction is read back and only logged; the
\* middlewares are not notified.
Z_record_action_acknowledgement(action_id) ==
    /\ transactions' = record_acknowledgement(transactions, action_id, now)
    /\ ledger_ret' = Some(Ok(Unit))
    /\ UNCHANGED telemetryVars
    /\ TrackingFrame

\* ZubridgeMiddleware::set_state, under the write lock.
Z_set_state(new_state) ==
    /\ readers = {}
    /\ state' = new_state
    /\ UNCHANGED <<readers, pc, in_action, current_action, idx, snapshot, result,
                   hook_log, transactions, log_history, n_appended, t_panicked>>
    /\ PipelineFrame

\* The states handed to set_state.
PipelineStates == {Num(1)}

\* The history limit is one that makes add_log_entry panic or the largest.
PipelineInit ==
    /\ MetricsRest /\ LedgerRest /\ CleanupRest /\ WebSocketRest /\ StartRest /\ LockRest /\ FanRest /\ PerfRest
    /\ log_limit \in {0, MaxLogLimit}
    /\ log_history = <<>>
    /\ last_state = None
    /\ t_panicked = FALSE
    /\ n_appended = 0
    /\ middlewares \in MiddlewareLists
    /\ state = Obj(EmptyMap)
    /\ readers = {}
    /\ pc = [p \in Procs |-> "idle"]
    /\ in_action = [p \in Procs |-> Action(<<>>, None, None)]
    /\ current_action = [p \in Procs |-> None]
    /\ idx = [p \in Procs |-> 1]
    /\ snapshot = [p \in Procs |-> Obj(EmptyMap)]
    /\ result = [p \in Procs |-> None]
    /\ hook_log = [p \in Procs |-> <<>>]

\* The dispatch of an action without id changes nothing process_action reads;
\* SpecTracking makes those calls.
PipelineNext ==
    \/ \E p \in Procs, a \in PipelineActions : Start(p, a)
    \/ \E p \in Procs : PreHook(p)
    \/ \E p \in Procs : PreEnd(p)
    \/ \E p \in Procs : Mutate(p)
    \/ \E p \in Procs : AcquireRead(p)
    \/ \E p \in Procs : PostHook(p)
    \/ \E p \in Procs : PostEnd(p)
    \/ \E p \in Procs : Track(p)
    \/ \E p \in Procs : Notify(p)
    \/ \E p \in Procs : NotifyEnd(p)
    \/ \E a \in PipelineActions : IsSome(a.id) /\ Z_record_action_dispatch(a)
    \/ \E s \in PipelineStates : Z_set_state(s)

SpecPipeline == PipelineInit /\ [][PipelineNext]_vars

\* The process_action calls alone: the collaborator makes no set_state call
\* and no tracking call while they run.
ConcurrentActionsNext ==
    \/ \E p \in Procs, a \in PipelineActions : Start(p, a)
    \/ \E p \in Procs : PreHook(p)
    \/ \E p \in Procs : PreEnd(p)
    \/ \E p \in Procs : Mutate(p)
    \/ \E p \in Procs : AcquireRead(p)
    \/ \E p \in Procs : PostHook(p)
    \/ \E p \in Procs : PostEnd(p)
    \/ \E p \in Procs : Track(p)
    \/ \E p \in Procs : Notify(p)
    \/ \E p \in Procs : NotifyEnd(p)

SpecConcurrentActions == PipelineInit /\ [][ConcurrentActionsNext]_vars

----------------------------------------------------------------------------
(* Action tracking: the lifecycle calls of ZubridgeMiddleware (middleware.rs) *)
(* against the ledger.  The collaborator follows the lifecycle for the action *)
(* with an id: record_action_dispatch, record_action_received, process_action *)
(* by the call p1, record_action_acknowledgement, and no second call on that  *)
(* id.  Side by side it makes the same calls for actions without id, whose    *)
(* process_action is the call p2.  The clock moves on between any two steps.  *)

\* The action of the lifecycle and the actions without id.
TrackedAction == CHOOSE a \in PipelineActions : IsSome(a.id)

UntrackedActions == {a \in PipelineActions : ~IsSome(a.id)}

TrackedId == Unwrap(TrackedAction.id)

\* At most one middleware is registered; the history holds one entry.
TrackingInit ==
    /\ MetricsRest /\ LedgerRest /\ CleanupRest /\ WebSocketRest /\ StartRest /\ LockRest /\ FanRest /\ PerfRest
    /\ log_limit = 1
    /\ log_history = <<>>
    /\ last_state = None
    /\ t_panicked = FALSE
    /\ n_appended = 0
    /\ middlewares \in {l \in MiddlewareLists : Len(l) <= 1}
    /\ state = Obj(EmptyMap)
    /\ readers = {}
    /\ pc = [p \in Procs |-> "idle"]
    /\ in_action = [p \in Procs |-> Action(<<>>, None, None)]
    /\ current_action = [p \in Procs |-> None]
    /\ idx = [p \in Procs |-> 1]
    /\ snapshot = [p \in Procs |-> Obj(EmptyMap)]
    /\ result = [p \in Procs |-> None]
    /\ hook_log = [p \in Procs |-> <<>>]

\* The collaborator makes the lifecycle call that is due for the tracked id:
\* the dispatch while the ledger has no transaction, the receipt while the
\* transaction has no receive timestamp, process_action after it, and the
\* acknowledgement once process_action has returned.
TrackingNext ==
    \/ /\ TrackedId \notin DOMAIN transactions
       /\ Z_record_action_dispatch(TrackedAction)
    \/ /\ TrackedId \in DOMAIN transactions
       /\ transactions[TrackedId].receive_timestamp = None
       /\ Z_record_action_received(TrackedAction)
    \/ /\ TrackedId \in DOMAIN transactions
       /\ transactions[TrackedId].receive_timestamp # None
       /\ Start("p1", TrackedAction)
    \/ /\ pc["p1"] = "done"
       /\ TrackedId \in DOMAIN transactions
       /\ transactions[TrackedId].acknowledge_timestamp = None
       /\ Z_record_action_acknowledgement(TrackedId)
    \/ \E a \in UntrackedActions : Z_record_action_dispatch(a)
    \/ \E a \in UntrackedActions : Z_record_action_received(a)
    \/ \E a \in UntrackedActions : Start("p2", a)
    \/ \E p \in Procs : PreHook(p)
    \/ \E p \in Procs : PreEnd(p)
    \/ \E p \in Procs : Mutate(p)
    \/ \E p \in Procs : AcquireRead(p)
    \/ \E p \in Procs : PostHook(p)
    \/ \E p \in Procs : PostEnd(p)
    \/ \E p \in Procs : Track(p)
    \/ \E p \in Procs : Notify(p)
    \/ \E p \in Procs : NotifyEnd(p)
    \/ CalculateMetrics(TrackedId) /\ LedgerFrame
    \/ Tick /\ LedgerFrame

SpecTracking == TrackingInit /\ [][TrackingNext]_vars

----------------------------------------------------------------------------
(* Performance metrics of a call: extract_from_context (metrics.rs) and the   *)
(* timing keys process_action writes into the Context of the call             *)
(* (middleware.rs).                                                           *)

\* A serde_json value under a timing key: t is "number" (the f64 q, kept as
\* the exact rational <<numerator, denominator>>), "integer" (a Number that
\* holds an i64, q = <<n, 1>>), "string" (the characters s) or "bool".
JsonValue(t, q, s) == [t |-> t, q |-> q, s |-> s]

DecimalDigits == <<"0", "1", "2", "3", "4", "5", "6", "7", "8", "9">>

RECURSIVE DigitsValue(_)
\* The number a sequence of decimal digits denotes.
DigitsValue(ds) ==
    IF ds = <<>> THEN 0
    ELSE 10 * DigitsValue(SubSeq(ds, 1, Len(ds) - 1))
         + (CHOOSE d \in 0..9 : DecimalDigits[d + 1] = ds[Len(ds)])

RECURSIVE Pow10(_)
Pow10(k) == IF k = 0 THEN 1 ELSE 10 * Pow10(k - 1)

RECURSIVE Reduce(_)
\* One f64 per number: the decimal fraction without trailing zeros.
Reduce(q) ==
    IF q[2] > 1 /\ q[1] % 10 = 0
    THEN Reduce(<<q[1] \div 10, q[2] \div 10>>)
    ELSE q

\* str::parse::<f64> on decimal notation (an optional '-', digits, at most one
\* '.'); any other string drawn here is one it rejects.
parse_f64(str) ==
    LET neg == str # <<>> /\ str[1] = "-"
        body == IF neg THEN Tail(str) ELSE str
        dots == {i \in DOMAIN body : body[i] = "."}
        IsDigit(c) == \E i \in DOMAIN DecimalDigits : DecimalDigits[i] = c
        digits == SelectSeq(body, IsDigit)
        frac == IF dots = {} THEN 0 ELSE Len(body) - (CHOOSE i \in dots : TRUE)
    IN  IF \/ digits = <<>>
           \/ Cardinality(dots) > 1
           \/ Len(digits) + Cardinality(dots) # Len(body)
        THEN None
        ELSE Some(Reduce(<<(IF neg THEN 0 - 1 ELSE 1) * DigitsValue(digits),
                           Pow10(frac)>>))

\* The closure extract_f64: as_f64 reads every JSON number; a string is
\* parsed; anything else gives None.
extract_f64(value) ==
    IF value.t \in {"number", "integer"} THEN Some(value.q)
    ELSE IF value.t = "string" THEN parse_f64(value.s)
    ELSE None

\* extract_either that knows the current key names only.
extract_either_primaryOnly(metadata, key, alt) ==
    IF key \in DOMAIN metadata THEN extract_f64(metadata[key]) ELSE None

\* metadata.get(key).and_then(extract_f64)
\*     .or_else(|| metadata.get(alt).and_then(extract_f64))
extract_either(metadata, key, alt) ==
    LET first == IF key \in DOMAIN metadata
                 THEN extract_f64(metadata[key]) ELSE None
    IN  IF IsSome(first) THEN first
        ELSE IF alt \in DOMAIN metadata THEN extract_f64(metadata[alt])
        ELSE None

\* extract_from_context; end_time is SystemTime::now() as read by the call.
\* `end_time - start_time` is a u128 subtraction: the contexts of the model
\* have their start_time at or before the clock.
extract_from_context(ctx, config, end_time) ==
    IF ~config.enabled THEN None
    ELSE LET metadata == ctx.metadata
             explicit ==
                 IF "processing_time_ms" \in DOMAIN metadata
                 THEN extract_f64(metadata["processing_time_ms"])
                 ELSE IF "total_ms" \in DOMAIN metadata
                 THEN extract_f64(metadata["total_ms"])
                 ELSE None
             total_ms ==
                 IF IsSome(explicit) THEN explicit
                 ELSE IF IsSome(ctx.start_time)
                 THEN Some(Millis(end_time - Unwrap(ctx.start_time)))
                 ELSE None
         IN  IF ~IsSome(total_ms) THEN None
             ELSE IF config.detail = "Low"
             THEN Some(Metrics(Unwrap(total_ms), None, None, None, None))
             ELSE Some(Metrics(Unwrap(total_ms),
                     extract_either(metadata, "deserialization_time_ms",
                                    "deserialization_ms"),
                     extract_either(metadata, "action_processing_time_ms",
                                    "action_ms"),
                     extract_either(metadata, "state_update_time_ms", "state_ms"),
                     IF config.detail = "High"
                     THEN extract_either(metadata, "serialization_time_ms",
                                         "serialization_ms")
                     ELSE None))

\* struct Context: the metadata map and start_time.
Context(metadata, start_time) ==
    [metadata |-> metadata, start_time |-> start_time]

\* TelemetryConfig.measure_performance and, of its metrics::Config,
\* include_in_logs, enabled and detail (enum DetailLevel).
PerfConfigs ==
    [measure_performance : BOOLEAN, include_in_logs : BOOLEAN,
     enabled : BOOLEAN, detail : {"Low", "Medium", "High"}]

\* The values drawn for a total: a number, a negative number, a numeric
\* string, a string that is no number, a boolean.
TotalValues ==
    { JsonValue("number", <<5, 1>>, <<>>),
      JsonValue("number", <<0 - 1, 1>>, <<>>),
      JsonValue("string", <<0, 1>>, <<"2", ".", "5", "0">>),
      JsonValue("string", <<0, 1>>, <<"n", "/", "a">>),
      JsonValue("bool", <<0, 1>>, <<>>) }

\* The metadata drawn: no total, a total under processing_time_ms, under the
\* older name total_ms, or under both; any of the phase keys, one phase under
\* its older name, one phase that is no number.
ExtractTotals ==
    {<<>>}
    \cup {"processing_time_ms" :> v : v \in TotalValues}
    \cup {"total_ms" :> v : v \in TotalValues}
    \cup {("processing_time_ms" :> v) @@ ("total_ms" :> JsonValue("number", <<7, 1>>, <<>>)) :
             v \in TotalValues}

ExtractPhases ==
    {[k \in S |-> JsonValue("number", <<1, 1>>, <<>>)] :
        S \in SUBSET {"deserialization_time_ms", "action_processing_time_ms",
                      "state_update_time_ms", "serialization_time_ms"}}
    \cup {"state_ms" :> JsonValue("number", <<3, 1>>, <<>>),
          "state_update_time_ms" :> JsonValue("string", <<0, 1>>, <<"x">>)}

\* extract_from_context is called once, on any of the contexts drawn, under
\* any configuration, at any time the clock shows.
ExtractInit ==
    /\ MetricsRest /\ LedgerRest /\ CleanupRest /\ TelemetryRest /\ PipelineRest
    /\ WebSocketRest /\ StartRest /\ LockRest /\ FanRest
    /\ e_ctx \in {Context(t @@ p, st) :
                    t \in ExtractTotals, p \in ExtractPhases, st \in {None, Some(0)}}
    /\ e_config \in {c \in PerfConfigs : c.measure_performance /\ c.include_in_logs}
    /\ e_pc = "idle"
    /\ e_metrics = None
    /\ z_in = None
    /\ z_out = None

Extract ==
    /\ e_metrics = None
    /\ e_metrics' = Some(extract_from_context(e_ctx, e_config, now))
    /\ UNCHANGED <<metricsVars, ledgerVars, cleanupVars, telemetryVars,
                   pipelineVars, wsVars, startVars, lockVars, fanVars, e_ctx, e_config, e_pc, z_in, z_out>>

ExtractNext ==
    \/ Extract
    \/ e_metrics = None /\ Tick /\ LedgerFrame

SpecExtract == ExtractInit /\ [][ExtractNext]_vars

----------------------------------------------------------------------------
(* The timing bookkeeping of process_action (middleware.rs): one call, with   *)
(* the telemetry middleware as the only middleware, followed through the      *)
(* keys it writes into its Context and the entries its hooks append.  A span  *)
(* measured inside one step has no length; the spans measured from the start  *)
(* of the call are as long as the clock has moved on.                         *)

\* The action of the timed call.
TimedAction == Action(<<"P", "I", "N", "G">>, None, None)

\* ctx.metadata.insert(key, json!(time)), done with measure_performance only.
InsertTiming(ctx, key, time) ==
    IF e_config.measure_performance
    THEN [ctx EXCEPT !.metadata = (key :> JsonValue("number", time, <<>>)) @@ @]
    ELSE ctx

\* What a step of the timed call leaves alone.
TimingFrame ==
    UNCHANGED <<metricsVars, ledgerVars, cleanupVars, log_limit, last_state,
                middlewares, readers, pc, in_action, current_action, idx,
                snapshot, result, hook_log, wsVars, startVars, lockVars, fanVars, e_config, e_metrics, z_in,
                z_out>>

TimingInit ==
    /\ MetricsRest /\ LedgerRest /\ CleanupRest /\ WebSocketRest /\ StartRest /\ LockRest /\ FanRest
    /\ log_limit = MaxLogLimit
    /\ log_history = <<>>
    /\ last_state = None
    /\ t_panicked = FALSE
    /\ n_appended = 0
    /\ middlewares = <<"telemetry">>
    /\ state = Obj(EmptyMap)
    /\ readers = {}
    /\ pc = [p \in Procs |-> "idle"]
    /\ in_action = [p \in Procs |-> Action(<<>>, None, None)]
    /\ current_action = [p \in Procs |-> None]
    /\ idx = [p \in Procs |-> 1]
    /\ snapshot = [p \in Procs |-> Obj(EmptyMap)]
    /\ result = [p \in Procs |-> None]
    /\ hook_log = [p \in Procs |-> <<>>]
    /\ e_ctx = Context(<<>>, None)
    /\ e_config \in PerfConfigs
    /\ e_pc = "idle"
    /\ e_metrics = None
    /\ z_in = None
    /\ z_out = None

\* Context::new(), the start time and the deserialization span (lines 194-257).
TimedBegin ==
    /\ e_pc = "idle"
    /\ e_ctx' = InsertTiming(Context(<<>>, Some(now)),
                             "deserialization_time_ms", ZeroMillis)
    /\ e_pc' = "pre"
    /\ UNCHANGED <<state, log_history, n_appended, t_panicked>>
    /\ TimingFrame

\* The pre-hook loop (lines 259-294): before_action of the telemetry middleware.
TimedPreHook ==
    /\ e_pc = "pre"
    /\ AddLogEntry(BeforeEntry(TimedAction, ContextId("uuid", "p1")))
    /\ e_pc' = "update"
    /\ UNCHANGED <<state, e_ctx>>
    /\ TimingFrame

\* The state update and its span (lines 296-372).
TimedUpdate ==
    /\ e_pc = "update"
    /\ state' = ApplyAction(state, TimedAction)
    /\ e_ctx' = InsertTiming(e_ctx, "state_update_time_ms", ZeroMillis)
    /\ e_pc' = "post"
    /\ UNCHANGED <<log_history, n_appended, t_panicked>>
    /\ TimingFrame

\* The post-hook loop (lines 374-379): after_action of the telemetry
\* middleware reads the metrics out of the Context as it is now
\* (telemetry.rs 534-538) and appends the StateUpdated entry.
TimedPostHook ==
    /\ e_pc = "post"
    /\ AddLogEntry([AfterEntry(TimedAction, state, ContextId("uuid", "p1"))
                       EXCEPT !.processing_metrics =
                           IF /\ e_config.measure_performance
                              /\ e_config.include_in_logs
                           THEN extract_from_context(e_ctx, e_config, now)
                           ELSE None])
    /\ e_pc' = "tail"
    /\ UNCHANGED <<state, e_ctx>>
    /\ TimingFrame

\* The spans written after the post-hooks (lines 381-440): action processing
\* and the total, both measured from the start of the call, and serialization.
TimedTail ==
    /\ e_pc = "tail"
    /\ e_ctx' = InsertTiming(
                  InsertTiming(
                    InsertTiming(e_ctx, "action_processing_time_ms",
                                 Millis(now - Unwrap(e_ctx.start_time))),
                    "processing_time_ms", Millis(now - Unwrap(e_ctx.start_time))),
                  "serialization_time_ms", ZeroMillis)
    /\ e_pc' = "done"
    /\ UNCHANGED <<state, log_history, n_appended, t_panicked>>
    /\ TimingFrame

TimingNext ==
    \/ TimedBegin
    \/ TimedPreHook
    \/ TimedUpdate
    \/ TimedPostHook
    \/ TimedTail
    \/ Tick /\ LedgerFrame

SpecTiming == TimingInit /\ [][TimingNext]_vars

----------------------------------------------------------------------------
(* Textual encoding: serialization::serialize and ensure_numeric_metrics     *)
(* (serialization.rs).  Of a telemetry entry the model keeps the              *)
(* processing_metrics object: None, or the map from field name to value.      *)

\* The longest array of entries serialized.
MaxItems == 2

\* The fields ensure_numeric_metrics goes through.
MetricFields ==
    {"total_ms", "deserialization_ms", "action_processing_ms",
     "state_update_ms", "serialization_ms"}

RECURSIVE NatDigits(_)
\* The decimal digits of a natural number.
NatDigits(n) ==
    IF n < 10 THEN <<DecimalDigits[n + 1]>>
    ELSE NatDigits(n \div 10) \o <<DecimalDigits[(n % 10) + 1]>>

\* serde_json's text of an f64: the shortest decimal, with a fraction always.
format_f64(q) ==
    LET r == Reduce(q)
        abs == IF r[1] < 0 THEN 0 - r[1] ELSE r[1]
        sign == IF r[1] < 0 THEN <<"-">> ELSE <<>>
    IN  sign \o NatDigits(abs \div r[2]) \o <<".">>
             \o (IF r[2] = 1 THEN <<"0">>
                 ELSE Tail(NatDigits(r[2] + (abs % r[2]))))

\* serde_json::to_string on a value: a float, an integer, a quoted string, a
\* boolean.
to_string(value) ==
    CASE value.t = "number" -> format_f64(value.q)
      [] value.t = "integer" ->
            (IF value.q[1] < 0 THEN <<"-">> ELSE <<>>)
            \o NatDigits(IF value.q[1] < 0 THEN 0 - value.q[1] ELSE value.q[1])
      [] value.t = "string" -> <<"\"">> \o value.s \o <<"\"">>
      [] OTHER -> <<"t", "r", "u", "e">>

\* serialize without the numeric pass.
ensure_numeric_metrics_skipped(entry) == entry

\* ensure_numeric_metrics on the object of an entry: in processing_metrics, a
\* string that parses as f64 becomes that number, an integer becomes the float
\* of the same value; everything else stays.
ensure_numeric_metrics(entry) ==
    IF entry = None THEN entry
    ELSE LET metrics == Unwrap(entry)
         IN  Some([f \in DOMAIN metrics |->
                 IF f \notin MetricFields THEN metrics[f]
                 ELSE IF metrics[f].t = "string"
                 THEN IF parse_f64(metrics[f].s) # None
                      THEN JsonValue("number", Unwrap(parse_f64(metrics[f].s)), <<>>)
                      ELSE metrics[f]
                 ELSE IF metrics[f].t = "integer"
                 THEN JsonValue("number", metrics[f].q, <<>>)
                 ELSE metrics[f]])

\* The text of an entry: of each field of processing_metrics, its text.
EntryText(entry) ==
    IF entry = None THEN None
    ELSE Some([f \in DOMAIN Unwrap(entry) |-> to_string(Unwrap(entry)[f])])

\* serialization::serialize.  Json: the value of an entry object, or of an
\* array of entry objects, goes through ensure_numeric_metrics entry by entry
\* and is written as text (an object holding the array under "entries", which
\* the code treats like the array, is not drawn).  MessagePack: the values
\* are encoded as they are.
serialize(data, format) ==
    IF format = "Json"
    THEN [format |-> "json",
          items |-> [i \in DOMAIN data.items |->
                        EntryText(ensure_numeric_metrics(data.items[i]))]]
    ELSE [format |-> "messagepack", items |-> data.items]

\* The values drawn for a metric field: a fractional number, a whole float, an
\* integer, numeric strings, a string that is no number.
MetricValues ==
    { JsonValue("number", <<155, 10>>, <<>>),
      JsonValue("number", <<2, 1>>, <<>>),
      JsonValue("integer", <<5, 1>>, <<>>),
      JsonValue("string", <<0, 1>>, <<"1", "5", ".", "5">>),
      JsonValue("string", <<0, 1>>, <<"-", "2", ".", "5", "0">>),
      JsonValue("string", <<0, 1>>, <<"n", "/", "a">>) }

\* The entries drawn: without processing_metrics, or with total_ms and
\* possibly one phase field.
SerializedEntries ==
    {None}
    \cup {Some("total_ms" :> v) : v \in MetricValues}
    \cup {Some(("total_ms" :> v) @@ ("state_update_ms" :> w)) :
             v \in MetricValues, w \in MetricValues}

\* One entry (an object) or an array of entries is serialized once, in either
\* format.
SerializeInit ==
    /\ MetricsRest /\ LedgerRest /\ CleanupRest /\ TelemetryRest /\ PipelineRest
    /\ WebSocketRest /\ StartRest /\ LockRest /\ FanRest
    /\ e_ctx = Context(<<>>, None)
    /\ e_config \in {c \in PerfConfigs : c.measure_performance /\ c.include_in_logs
                                         /\ c.enabled /\ c.detail = "Medium"}
    /\ e_pc = "idle"
    /\ e_metrics = None
    /\ z_in \in {Some([shape |-> "object", items |-> <<e>>]) : e \in SerializedEntries}
           \cup {Some([shape |-> "array", items |-> l]) :
                    l \in UNION {[1..n -> SerializedEntries] : n \in 0..MaxItems}}
    /\ z_out = None

Serialize(format) ==
    /\ z_out = None
    /\ z_out' = Some(serialize(Unwrap(z_in), format))
    /\ UNCHANGED <<metricsVars, ledgerVars, cleanupVars, telemetryVars,
                   pipelineVars, wsVars, startVars, lockVars, fanVars, e_ctx, e_config, e_pc, e_metrics, z_in>>

SerializeNext ==
    \/ Serialize("Json")
    \/ Serialize("MessagePack")

SpecSerialize == SerializeInit /\ [][SerializeNext]_vars

----------------------------------------------------------------------------
(* WebSocket server: websocket.rs, fed by add_log_entry of telemetry.rs.      *)
(* One add_log_entry call at a time pushes an entry and broadcasts it; each   *)
(* viewer connection runs handle_connection with its two spawned tasks.  The  *)
(* server outlives the connections, so the channel is never closed.            *)

\* BROADCAST_CHANNEL_SIZE, 1024 in the source, scaled down: the channel keeps
\* this many of the newest messages for a receiver that has not read them.
BROADCAST_CHANNEL_SIZE == 2

\* The entries add_log_entry is called with before the run ends.
MaxEntries == 4

\* The pings a viewer sends on one connection.
MaxPings == 1

WsFormats == {"Json", "MessagePack"}

\* convert_format
convert_format(format) == format

\* serialization::serialize of the whole history (T = Vec<TelemetryEntry>):
\* one array holding every entry, in the given format.
serialize_history(history, format) ==
    [format |-> format, shape |-> "array", items |-> history]

\* serialization::serialize of one entry (T = TelemetryEntry): one object.
serialize_entry(entry, format) ==
    [format |-> format, shape |-> "object", items |-> <<entry>>]

\* The frame built from serialized data: Text for Json, Binary otherwise.
Message(format, data) ==
    [kind |-> IF format = "Json" THEN "Text" ELSE "Binary", data |-> data]

\* Message::Pong(vec![])
Pong == [kind |-> "Pong", data |-> [format |-> "", shape |-> "", items |-> <<>>]]

\* The entry the collaborator logs; add_log_entry numbers it.
WsEntry ==
    TelemetryEntry("ActionDispatched", None, None, None, None,
                   ContextId("uuid", "c1"), None, 0)

\* The first half of add_log_entry: the entry is pushed onto the history under
\* the write lock; the broadcast follows.
WsPush ==
    /\ a_pc = "idle"
    /\ n_appended < MaxEntries
    /\ AddLogEntry(WsEntry)
    /\ a_entry' = Some([WsEntry EXCEPT !.seq = n_appended + 1])
    /\ a_pc' = "broadcast"
    /\ UNCHANGED <<serialization_format, clients, chan, ws_ret, n_serialized,
                   h_pc, h_ret, h_msg, rx_next, sent, w_pc, w_msg, r_pc>>

\* broadcast::Sender::send as if it waited for room: it goes ahead only when
\* no registered viewer has a full backlog.
ChannelSend_whenRoom(data) ==
    /\ \A c \in clients : Len(chan) - (rx_next[c] - 1) < BROADCAST_CHANNEL_SIZE
    /\ chan' = Append(chan, data)

\* broadcast::Sender::send as if a message were dropped when a registered
\* viewer has a full backlog.
ChannelSend_dropsWhenFull(data) ==
    IF \E c \in clients : Len(chan) - (rx_next[c] - 1) >= BROADCAST_CHANNEL_SIZE
    THEN chan' = chan
    ELSE chan' = Append(chan, data)

\* broadcast::Sender::send: the message is stored for every receiver, whatever
\* their positions; the call never waits.
ChannelSend(data) == chan' = Append(chan, data)

\* clients.is_empty() that never sees an empty registry.
clients_is_empty_never(cl) == FALSE

\* clients.is_empty()
clients_is_empty(cl) == cl = {}

\* WebSocketServer::broadcast, called by add_log_entry once the entry is
\* pushed.  After the read lock is taken the call has no await: the emptiness
\* test, the serialization and the channel send are one step.  The registry
\* holds a receiver per client, so the send of a non-empty registry has
\* receivers and stores the message.
Broadcast ==
    /\ a_pc = "broadcast"
    /\ IF clients_is_empty(clients)
       THEN UNCHANGED <<chan, n_serialized>>
       ELSE /\ n_serialized' = n_serialized + 1
            /\ ChannelSend(serialize_entry(Unwrap(a_entry),
                              convert_format(serialization_format)))
    /\ ws_ret' = Some(Ok(Unit))
    /\ a_pc' = "idle"
    /\ UNCHANGED <<serialization_format, clients, a_entry, h_pc, h_ret, h_msg,
                   rx_next, sent, w_pc, w_msg, r_pc,
                   log_history, n_appended, t_panicked>>

\* accept_async: the WebSocket handshake succeeds, or it fails and
\* handle_connection returns the error before anything is registered.
Accept(c, ok) ==
    /\ h_pc[c] = "new"
    /\ IF ok
       THEN /\ h_pc' = [h_pc EXCEPT ![c] = "subscribe"]
            /\ UNCHANGED h_ret
       ELSE /\ h_pc' = [h_pc EXCEPT ![c] = "done"]
            /\ h_ret' = [h_ret EXCEPT ![c] = Some(Err("WebSocket"))]
    /\ UNCHANGED <<serialization_format, clients, chan, a_pc, a_entry, ws_ret,
                   n_serialized, h_msg, rx_next, sent, w_pc, w_msg, r_pc,
                   log_history, n_appended, t_panicked>>

\* let mut receiver = sender.subscribe(): the receiver starts after the
\* messages sent so far.
Subscribe(c) ==
    /\ h_pc[c] = "subscribe"
    /\ rx_next' = [rx_next EXCEPT ![c] = Len(chan) + 1]
    /\ h_pc' = [h_pc EXCEPT ![c] = "register"]
    /\ UNCHANGED <<serialization_format, clients, chan, a_pc, a_entry, ws_ret,
                   n_serialized, h_ret, h_msg, sent, w_pc, w_msg, r_pc,
                   log_history, n_appended, t_panicked>>

\* clients.write().await; clients.insert(addr, ..)
Register(c) ==
    /\ h_pc[c] = "register"
    /\ clients' = clients \cup {c}
    /\ h_pc' = [h_pc EXCEPT ![c] = "history"]
    /\ UNCHANGED <<serialization_format, chan, a_pc, a_entry, ws_ret,
                   n_serialized, h_ret, h_msg, rx_next, sent, w_pc, w_msg, r_pc,
                   log_history, n_appended, t_panicked>>

\* The initial message as if it carried the newest entry only.
InitialMessage_newestOnly(history, format) ==
    Message(format,
            serialize_history(IF history = <<>> THEN history
                              ELSE <<history[Len(history)]>>,
                              convert_format(format)))

\* The initial message: the clone of the history, serialized as one value and
\* wrapped in one frame.
InitialMessage(history, format) ==
    Message(format, serialize_history(history, convert_format(format)))

\* The history is cloned under the read lock and serialized.
Snapshot(c) ==
    /\ h_pc[c] = "history"
    /\ h_msg' = [h_msg EXCEPT
                    ![c] = Some(InitialMessage(log_history, serialization_format))]
    /\ n_serialized' = n_serialized + 1
    /\ h_pc' = [h_pc EXCEPT ![c] = "initial"]
    /\ UNCHANGED <<serialization_format, clients, chan, a_pc, a_entry, ws_ret,
                   h_ret, rx_next, sent, w_pc, w_msg, r_pc,
                   log_history, n_appended, t_panicked>>

\* ws_sender1.lock().await.send(msg).await: the initial message is written and
\* the two tasks are spawned, or the write fails and handle_connection returns
\* the error through `?`, past the removal from the registry.
InitialSend(c, ok) ==
    /\ h_pc[c] = "initial"
    /\ IF ok
       THEN /\ sent' = [sent EXCEPT ![c] = Append(@, Unwrap(h_msg[c]))]
            /\ r_pc' = [r_pc EXCEPT ![c] = "run"]
            /\ w_pc' = [w_pc EXCEPT ![c] = "recv"]
            /\ h_pc' = [h_pc EXCEPT ![c] = "select"]
            /\ UNCHANGED h_ret
       ELSE /\ h_pc' = [h_pc EXCEPT ![c] = "done"]
            /\ h_ret' = [h_ret EXCEPT ![c] = Some(Err("WebSocket"))]
            /\ UNCHANGED <<sent, r_pc, w_pc>>
    /\ UNCHANGED <<serialization_format, clients, chan, a_pc, a_entry, ws_ret,
                   n_serialized, h_msg, rx_next, w_msg,
                   log_history, n_appended, t_panicked>>

\* RecvError::Lagged: the receiver is more than the capacity behind.
Lagged(c) == Len(chan) - (rx_next[c] - 1) > BROADCAST_CHANNEL_SIZE

\* broadcast_task, receiver.recv().await: the next message, when there is one,
\* is taken for sending; a receiver that lagged gets Err and the loop breaks.
WriterRecv(c) ==
    /\ w_pc[c] = "recv"
    /\ IF Lagged(c)
       THEN /\ w_pc' = [w_pc EXCEPT ![c] = "ended"]
            /\ UNCHANGED <<rx_next, w_msg>>
       ELSE /\ rx_next[c] <= Len(chan)
            /\ w_msg' = [w_msg EXCEPT ![c] = Some(chan[rx_next[c]])]
            /\ rx_next' = [rx_next EXCEPT ![c] = @ + 1]
            /\ w_pc' = [w_pc EXCEPT ![c] = "send"]
    /\ UNCHANGED <<serialization_format, clients, chan, a_pc, a_entry, ws_ret,
                   n_serialized, h_pc, h_ret, h_msg, sent, r_pc,
                   log_history, n_appended, t_panicked>>

\* broadcast_task, lock.send(msg).await: the entry is written to the socket, or
\* the write fails and the loop breaks.
WriterSend(c, ok) ==
    /\ w_pc[c] = "send"
    /\ IF ok
       THEN /\ sent' = [sent EXCEPT
                          ![c] = Append(@, Message(serialization_format,
                                                   Unwrap(w_msg[c])))]
            /\ w_pc' = [w_pc EXCEPT ![c] = "recv"]
       ELSE /\ w_pc' = [w_pc EXCEPT ![c] = "ended"]
            /\ UNCHANGED sent
    /\ UNCHANGED <<serialization_format, clients, chan, a_pc, a_entry, ws_ret,
                   n_serialized, h_pc, h_ret, h_msg, rx_next, w_msg, r_pc,
                   log_history, n_appended, t_panicked>>

\* The pongs written to the connection so far.
Pongs(c) == Cardinality({i \in DOMAIN sent[c] : sent[c][i].kind = "Pong"})

\* client_task, a ping arrives: the pong is written under the sender lock, or
\* the write fails and the loop breaks.
ReaderPing(c, ok) ==
    /\ r_pc[c] = "run"
    /\ Pongs(c) < MaxPings
    /\ IF ok
       THEN /\ sent' = [sent EXCEPT ![c] = Append(@, Pong)]
            /\ UNCHANGED r_pc
       ELSE /\ r_pc' = [r_pc EXCEPT ![c] = "ended"]
            /\ UNCHANGED sent
    /\ UNCHANGED <<serialization_format, clients, chan, a_pc, a_entry, ws_ret,
                   n_serialized, h_pc, h_ret, h_msg, rx_next, w_pc, w_msg,
                   log_history, n_appended, t_panicked>>

\* client_task, a close frame, a transport error or the end of the stream
\* arrives: the loop ends.
ReaderStop(c) ==
    /\ r_pc[c] = "run"
    /\ r_pc' = [r_pc EXCEPT ![c] = "ended"]
    /\ UNCHANGED <<serialization_format, clients, chan, a_pc, a_entry, ws_ret,
                   n_serialized, h_pc, h_ret, h_msg, rx_next, sent, w_pc, w_msg,
                   log_history, n_appended, t_panicked>>

\* tokio::select! completes when either task has, the client is removed from
\* the registry and handle_connection returns Ok(()).  The other task is not
\* aborted: its JoinHandle is dropped and it runs on.
Finish(c) ==
    /\ h_pc[c] = "select"
    /\ r_pc[c] = "ended" \/ w_pc[c] = "ended"
    /\ clients' = clients \ {c}
    /\ h_pc' = [h_pc EXCEPT ![c] = "done"]
    /\ h_ret' = [h_ret EXCEPT ![c] = Some(Ok(Unit))]
    /\ UNCHANGED <<serialization_format, chan, a_pc, a_entry, ws_ret,
                   n_serialized, h_msg, rx_next, sent, w_pc, w_msg, r_pc,
                   log_history, n_appended, t_panicked>>

\* What the server and its producer leave alone.
WebSocketFrame ==
    UNCHANGED <<metricsVars, ledgerVars, cleanupVars, pipelineVars, log_limit,
                last_state, startVars, lockVars, fanVars, perfVars>>

\* The history limit is the largest; either format may be configured.
WebSocketInit ==
    /\ MetricsRest /\ LedgerRest /\ CleanupRest /\ PipelineRest /\ PerfRest
    /\ StartRest /\ LockRest /\ FanRest
    /\ log_limit = MaxLogLimit
    /\ log_history = <<>>
    /\ last_state = None
    /\ t_panicked = FALSE
    /\ n_appended = 0
    /\ serialization_format \in WsFormats
    /\ clients = {}
    /\ chan = <<>>
    /\ a_pc = "idle"
    /\ a_entry = None
    /\ ws_ret = None
    /\ n_serialized = 0
    /\ h_pc = [c \in Conns |-> "new"]
    /\ h_ret = [c \in Conns |-> None]
    /\ h_msg = [c \in Conns |-> None]
    /\ rx_next = [c \in Conns |-> 1]
    /\ sent = [c \in Conns |-> <<>>]
    /\ w_pc = [c \in Conns |-> "none"]
    /\ w_msg = [c \in Conns |-> None]
    /\ r_pc = [c \in Conns |-> "none"]

WebSocketNext ==
    \/ WsPush /\ WebSocketFrame
    \/ Broadcast /\ WebSocketFrame
    \/ \E c \in Conns, ok \in BOOLEAN : Accept(c, ok) /\ WebSocketFrame
    \/ \E c \in Conns : Subscribe(c) /\ WebSocketFrame
    \/ \E c \in Conns : Register(c) /\ WebSocketFrame
    \/ \E c \in Conns : Snapshot(c) /\ WebSocketFrame
    \/ \E c \in Conns, ok \in BOOLEAN : InitialSend(c, ok) /\ WebSocketFrame
    \/ \E c \in Conns : WriterRecv(c) /\ WebSocketFrame
    \/ \E c \in Conns, ok \in BOOLEAN : WriterSend(c, ok) /\ WebSocketFrame
    \/ \E c \in Conns, ok \in BOOLEAN : ReaderPing(c, ok) /\ WebSocketFrame
    \/ \E c \in Conns : ReaderStop(c) /\ WebSocketFrame
    \/ \E c \in Conns : Finish(c) /\ WebSocketFrame

SpecWebSocket == WebSocketInit /\ [][WebSocketNext]_vars

----------------------------------------------------------------------------
(* Start of the WebSocket server: WebSocketServer::start (websocket.rs).  The *)
(* operating system decides the outcome of every bind and of every accept.    *)

\* The accept calls that return a connection before the run ends.
MaxAccepts == 4

\* The accept calls that fail before the run ends.
MaxAcceptErrors == 4

\* The bind_address of WebSocketServer::new.
DefaultBindAddress == "127.0.0.1"

\* The hosts a server is configured with: the default, or one set by
\* with_bind_address.
BindAddresses == {DefaultBindAddress, "0.0.0.0", "localhost"}

\* The ports a server is configured with.
Ports == {9000, 9001}

\* A test that takes every host for the default one.
is_default_address_always(address) == TRUE

\* The test `self.bind_address != "127.0.0.1"`, negated.
is_default_address(address) == address = DefaultBindAddress

\* One TcpListener::bind call, as s_binds records it.
BindAttempt(host, port, ok) == [host |-> host, port |-> port, ok |-> ok]

\* start() up to the first bind: the listener is bound on the configured
\* address; on failure a server on the default host returns the error and any
\* other goes on to the fallback.
StartBind(port, ok) ==
    /\ s_pc = "idle"
    /\ s_binds' = Append(s_binds, BindAttempt(bind_address, port, ok))
    /\ IF ok
       THEN s_pc' = "listening" /\ UNCHANGED s_ret
       ELSE IF is_default_address(bind_address)
            THEN s_pc' = "failed" /\ s_ret' = Some(Err("WebSocket"))
            ELSE s_pc' = "fallback" /\ UNCHANGED s_ret
    /\ UNCHANGED <<bind_address, s_spawned, s_accept_errors>>

\* The fallback bind on 127.0.0.1 and the same port; its failure is returned
\* through `?`.
StartFallback(ok) ==
    /\ s_pc = "fallback"
    /\ s_binds' = Append(s_binds,
                         BindAttempt(DefaultBindAddress, s_binds[1].port, ok))
    /\ IF ok
       THEN s_pc' = "listening" /\ UNCHANGED s_ret
       ELSE s_pc' = "failed" /\ s_ret' = Some(Err("WebSocket"))
    /\ UNCHANGED <<bind_address, s_spawned, s_accept_errors>>

\* One turn of the accept loop that returns a connection: handle_connection
\* is spawned on it.
AcceptConnection ==
    /\ s_pc = "listening"
    /\ s_spawned < MaxAccepts
    /\ s_spawned' = s_spawned + 1
    /\ UNCHANGED <<bind_address, s_pc, s_binds, s_ret, s_accept_errors>>

\* One turn of the accept loop that fails: the error is logged and the loop
\* continues.
AcceptError ==
    /\ s_pc = "listening"
    /\ s_accept_errors < MaxAcceptErrors
    /\ s_accept_errors' = s_accept_errors + 1
    /\ UNCHANGED <<bind_address, s_pc, s_binds, s_ret, s_spawned>>

\* What start() leaves alone.
StartFrame ==
    UNCHANGED <<metricsVars, ledgerVars, cleanupVars, telemetryVars,
                pipelineVars, wsVars, lockVars, fanVars, perfVars>>

\* The server is configured with any of the hosts.
StartInit ==
    /\ MetricsRest /\ LedgerRest /\ CleanupRest /\ TelemetryRest /\ PipelineRest
    /\ WebSocketRest /\ LockRest /\ FanRest /\ PerfRest
    /\ bind_address \in BindAddresses
    /\ s_pc = "idle"
    /\ s_binds = <<>>
    /\ s_ret = None
    /\ s_spawned = 0
    /\ s_accept_errors = 0

StartNext ==
    \/ \E port \in Ports, ok \in BOOLEAN : StartBind(port, ok) /\ StartFrame
    \/ \E ok \in BOOLEAN : StartFallback(ok) /\ StartFrame
    \/ AcceptConnection /\ StartFrame
    \/ AcceptError /\ StartFrame

SpecStart == StartInit /\ [][StartNext]_vars

----------------------------------------------------------------------------
(* Lock discipline: the acquisitions and releases of the four tokio RwLocks   *)
(* (state, ledger, history, client registry) by concurrent process_action     *)
(* calls, set_state calls, cleanup cycles and viewer connections.  A call is  *)
(* followed through its lock operations only, one step per await: a guard     *)
(* that lives across an await is acquired and released in separate steps, a   *)
(* guard taken and dropped with no await in between is one step once it is    *)
(* granted.  tokio's RwLock is fair: an acquisition that cannot be granted at *)
(* once, or that finds waiters, queues and is granted in arrival order.  The  *)
(* telemetry middleware is registered and its WebSocket server enabled; its   *)
(* hooks return.                                                              *)

\* `lock.read().await` / `lock.write().await` of a guard that lives across
\* awaits, and the drop of that guard.
Acq(lock, mode) == [op |-> "acq", lock |-> lock, mode |-> mode]

Rel(lock) == [op |-> "rel", lock |-> lock, mode |-> ""]

\* A guard acquired and dropped by code that does not await while it holds it.
Use(lock, mode) == [op |-> "use", lock |-> lock, mode |-> mode]

\* TelemetryMiddleware::add_log_entry followed by WebSocketServer::broadcast:
\* the history write guard lives in the block of the push, the registry read
\* guard from the emptiness test to the return of broadcast.
add_log_entry_locks == <<Use("history", "W"), Use("clients", "R")>>

\* process_action that keeps its first read guard over the mutation.
process_action_locks_keepsRead(kind) ==
    <<Acq("state", "R")>> \o add_log_entry_locks
        \o <<Use("state", "W"), Rel("state")>>

\* ZubridgeMiddleware::process_action, by the course the call takes: cancelled
\* by a pre-hook after the telemetry pre-hook ran, or completed for an action
\* with an id (after the post-hooks the state is cloned under a read guard,
\* the ledger written and the telemetry middleware notified).  The read guard
\* of the hooks lives across their awaits.
process_action_locks(kind) ==
    LET pre == <<Acq("state", "R")>> \o add_log_entry_locks \o <<Rel("state")>>
        update == <<Use("state", "W")>>
        post == <<Acq("state", "R")>> \o add_log_entry_locks \o <<Rel("state")>>
        track == <<Use("state", "R"), Use("ledger", "W")>> \o add_log_entry_locks
    IN  IF kind = "cancelled" THEN pre
        ELSE pre \o update \o post \o track

\* ZubridgeMiddleware::set_state
set_state_locks == <<Use("state", "W")>>

\* One cycle of the cleanup task: the scan under the read guard, the removal
\* under a write guard when the scan marked something, the cap under a write
\* guard.
cleanup_locks(removes) ==
    <<Use("ledger", "R")>>
        \o (IF removes THEN <<Use("ledger", "W")>> ELSE <<>>)
        \o <<Use("ledger", "W")>>

\* WebSocketServer::handle_connection: the registration, the clone of the
\* history and, unless the initial send failed, the removal after select!.
handle_connection_locks(sends) ==
    <<Use("clients", "W"), Use("history", "R")>>
        \o (IF sends THEN <<Use("clients", "W")>> ELSE <<>>)

\* The calls each task makes.
LockPrograms(t) ==
    CASE t = "p1" -> {process_action_locks(k) : k \in {"cancelled", "tracked"}}
      [] t = "p2" -> {process_action_locks("tracked")}
      [] t = "s1" -> {set_state_locks}
      [] t = "c1" -> {cleanup_locks(TRUE)}
      [] OTHER -> {handle_connection_locks(TRUE)}

\* The operation a task is at, while its call runs.
Running(t) == l_pc[t] \in DOMAIN l_prog[t]

CurrentOp(t) == l_prog[t][l_pc[t]]

Waiting(t, lock) == \E i \in DOMAIN l_queue[lock] : l_queue[lock][i][1] = t

\* A read guard is compatible with read guards, a write guard with none.
Compatible(lock, mode) ==
    IF mode = "R" THEN \A g \in l_held[lock] : g[2] = "R"
    ELSE l_held[lock] = {}

\* The position after the current operation; the call returns after its last.
Advance(t) ==
    [l_pc EXCEPT ![t] = IF l_pc[t] = Len(l_prog[t]) THEN 0 ELSE l_pc[t] + 1]

\* The guards alive once the task was granted the guard it asks for: a guard
\* that is dropped before the next await is not seen by any other step.
Granted(t) ==
    IF CurrentOp(t).op = "acq"
    THEN [l_held EXCEPT ![CurrentOp(t).lock] = @ \cup {<<t, CurrentOp(t).mode>>}]
    ELSE l_held

\* A task starts a call.
LockCall(t, prog) ==
    /\ l_pc[t] = 0
    /\ l_prog' = [l_prog EXCEPT ![t] = prog]
    /\ l_pc' = [l_pc EXCEPT ![t] = 1]
    /\ UNCHANGED <<l_held, l_queue>>

\* The task polls read()/write(): the guard is granted at once when it is
\* compatible with the guards alive and nobody waits, else the acquisition
\* joins the queue of the lock.
LockAcquire(t) ==
    /\ Running(t)
    /\ CurrentOp(t).op \in {"acq", "use"}
    /\ LET lock == CurrentOp(t).lock
           mode == CurrentOp(t).mode
       IN  /\ ~Waiting(t, lock)
           /\ IF l_queue[lock] = <<>> /\ Compatible(lock, mode)
              THEN /\ l_held' = Granted(t)
                   /\ l_pc' = Advance(t)
                   /\ UNCHANGED l_queue
              ELSE /\ l_queue' = [l_queue EXCEPT ![lock] = Append(@, <<t, mode>>)]
                   /\ UNCHANGED <<l_held, l_pc>>
    /\ UNCHANGED l_prog

\* The oldest waiter of a lock is granted its guard once it is compatible
\* with the guards alive.
LockGrant(t) ==
    /\ Running(t)
    /\ CurrentOp(t).op \in {"acq", "use"}
    /\ LET lock == CurrentOp(t).lock
           mode == CurrentOp(t).mode
       IN  /\ l_queue[lock] # <<>>
           /\ Head(l_queue[lock]) = <<t, mode>>
           /\ Compatible(lock, mode)
           /\ l_queue' = [l_queue EXCEPT ![lock] = Tail(@)]
           /\ l_held' = Granted(t)
           /\ l_pc' = Advance(t)
    /\ UNCHANGED l_prog

\* A guard is dropped.
LockRelease(t) ==
    /\ Running(t)
    /\ CurrentOp(t).op = "rel"
    /\ l_held' = [l_held EXCEPT ![CurrentOp(t).lock] = {g \in @ : g[1] # t}]
    /\ l_pc' = Advance(t)
    /\ UNCHANGED <<l_prog, l_queue>>

\* What the lock operations leave alone.
LockFrame ==
    UNCHANGED <<metricsVars, ledgerVars, cleanupVars, telemetryVars,
                pipelineVars, wsVars, startVars, fanVars, perfVars>>

LockInit ==
    /\ MetricsRest /\ LedgerRest /\ CleanupRest /\ TelemetryRest /\ PipelineRest
    /\ WebSocketRest /\ StartRest /\ PerfRest
    /\ LockRest /\ FanRest

\* The steps of a call once it was made.
LockStep(t) == (LockAcquire(t) \/ LockGrant(t) \/ LockRelease(t)) /\ LockFrame

LockNext ==
    \/ \E t \in LockTasks :
          \E prog \in LockPrograms(t) : LockCall(t, prog) /\ LockFrame
    \/ \E t \in LockTasks : LockAcquire(t) /\ LockFrame
    \/ \E t \in LockTasks : LockGrant(t) /\ LockFrame
    \/ \E t \in LockTasks : LockRelease(t) /\ LockFrame

\* The runtime polls every task that is ready: a task that can take a step
\* takes it; nothing obliges a caller to make a call.
SpecLocks ==
    LockInit /\ [][LockNext]_vars /\ \A t \in LockTasks : WF_vars(LockStep(t))

----------------------------------------------------------------------------
(* Fan-out under concurrent logging: add_log_entry (telemetry.rs) called by   *)
(* several tasks at once, as the hooks of concurrent process_action calls do  *)
(* under the shared state read lock.  The history write lock is released      *)
(* before the broadcast, so the two halves of a call are separate steps.      *)

\* The entries the tasks log before the run ends.
MaxFanEntries == 3

\* add_log_entry up to the end of the history block: the entry is pushed
\* under the write lock, which is then released.
FanPush(t) ==
    /\ f_pc[t] = "idle"
    /\ n_appended < MaxFanEntries
    /\ AddLogEntry(WsEntry)
    /\ f_entry' = [f_entry EXCEPT ![t] = Some([WsEntry EXCEPT !.seq = n_appended + 1])]
    /\ f_pc' = [f_pc EXCEPT ![t] = "broadcast"]
    /\ UNCHANGED wsVars

\* The rest of add_log_entry: websocket.broadcast(&entry) under the registry
\* read lock, which other broadcasts share.
FanBroadcast(t) ==
    /\ f_pc[t] = "broadcast"
    /\ IF clients_is_empty(clients)
       THEN UNCHANGED <<chan, n_serialized>>
       ELSE /\ n_serialized' = n_serialized + 1
            /\ ChannelSend(serialize_entry(Unwrap(f_entry[t]),
                              convert_format(serialization_format)))
    /\ f_entry' = [f_entry EXCEPT ![t] = None]
    /\ f_pc' = [f_pc EXCEPT ![t] = "idle"]
    /\ UNCHANGED <<serialization_format, clients, a_pc, a_entry, ws_ret,
                   h_pc, h_ret, h_msg, rx_next, sent, w_pc, w_msg, r_pc,
                   log_history, n_appended, t_panicked>>

\* What the logging tasks leave alone.
FanFrame ==
    UNCHANGED <<metricsVars, ledgerVars, cleanupVars, pipelineVars, log_limit,
                last_state, startVars, lockVars, perfVars>>

FanOutNext ==
    \/ \E t \in FanTasks : FanPush(t) /\ FanFrame
    \/ \E t \in FanTasks : FanBroadcast(t) /\ FanFrame
    \/ \E c \in Conns, ok \in BOOLEAN : Accept(c, ok) /\ WebSocketFrame
    \/ \E c \in Conns : Subscribe(c) /\ WebSocketFrame
    \/ \E c \in Conns : Register(c) /\ WebSocketFrame
    \/ \E c \in Conns : Snapshot(c) /\ WebSocketFrame
    \/ \E c \in Conns, ok \in BOOLEAN : InitialSend(c, ok) /\ WebSocketFrame
    \/ \E c \in Conns : WriterRecv(c) /\ WebSocketFrame
    \/ \E c \in Conns, ok \in BOOLEAN : WriterSend(c, ok) /\ WebSocketFrame
    \/ \E c \in Conns : ReaderStop(c) /\ WebSocketFrame
    \/ \E c \in Conns : Finish(c) /\ WebSocketFrame

SpecFanOut == WebSocketInit /\ [][FanOutNext]_vars

----------------------------------------------------------------------------
(* Claims on the metrics calculator *)

\* The timestamps that are present, in lifecycle order:
\* dispatch, receive, state_update, acknowledge.
PresentTimestamps(tx) ==
    <<tx.dispatch_timestamp>> \o tx.receive_timestamp
        \o tx.state_update_timestamp \o tx.acknowledge_timestamp

\* Some present timestamp is later than a present timestamp of a later phase.
Disordered(tx) ==
    LET ts == PresentTimestamps(tx)
    IN  \E i, j \in DOMAIN ts : i < j /\ ts[i] > ts[j]

AllPresent(tx) ==
    /\ IsSome(tx.receive_timestamp)
    /\ IsSome(tx.state_update_timestamp)
    /\ IsSome(tx.acknowledge_timestamp)

\* k whole milliseconds as a duration.
WholeMillis(k) == <<k * NanosPerMilli, NanosPerMilli>>

\* C6 (as claimed): calculate_from_transaction returns None for every
\* transaction whose present timestamps are out of the order
\* dispatch <= receive <= state_update <= acknowledge at any position.
C6_DisorderedGivesNone ==
    (m_pc = "done" /\ Disordered(m_tx)) => m_result = Ok(None)

\* C7: for a transaction with all four timestamps present and in order,
\* calculate_from_transaction returns metrics with total = ack - dispatch,
\* deserialization = receive - dispatch, action_processing = update - receive,
\* state_update = ack - update (nanoseconds scaled to milliseconds), and the
\* three phases sum to the total.
C7_OrderedMetrics ==
    (m_pc = "done" /\ AllPresent(m_tx) /\ ~Disordered(m_tx)) =>
        LET d == m_tx.dispatch_timestamp
            r == Unwrap(m_tx.receive_timestamp)
            u == Unwrap(m_tx.state_update_timestamp)
            a == Unwrap(m_tx.acknowledge_timestamp)
        IN  /\ m_result.ok
            /\ IsSome(m_result.value)
            /\ LET m == Unwrap(m_result.value)
               IN  /\ m.total_ms = Millis(a - d)
                   /\ m.deserialization_ms = Some(Millis(r - d))
                   /\ m.action_processing_ms = Some(Millis(u - r))
                   /\ m.state_update_ms = Some(Millis(a - u))
                   /\ Unwrap(m.deserialization_ms)[1]
                        + Unwrap(m.action_processing_ms)[1]
                        + Unwrap(m.state_update_ms)[1] = m.total_ms[1]

\* C7 witness: the worked example t0, t0+5ms, t0+7ms, t0+10ms has been
\* calculated and gave 10, 5, 2 and 3 milliseconds.
C7_Witness ==
    /\ m_pc = "done"
    /\ m_tx.dispatch_timestamp = 0
    /\ m_tx.receive_timestamp = Some(5 * NanosPerMilli)
    /\ m_tx.state_update_timestamp = Some(7 * NanosPerMilli)
    /\ m_tx.acknowledge_timestamp = Some(10 * NanosPerMilli)
    /\ IsSome(m_result.value)
    /\ Unwrap(m_result.value).total_ms = WholeMillis(10)
    /\ Unwrap(m_result.value).deserialization_ms = Some(WholeMillis(5))
    /\ Unwrap(m_result.value).action_processing_ms = Some(WholeMillis(2))
    /\ Unwrap(m_result.value).state_update_ms = Some(WholeMillis(3))

----------------------------------------------------------------------------
(* Claims on the transaction ledger and its cleanup task *)

\* A timestamp of `old` that is set is the same in `new`.
KeepsSetTimestamps(old, new) ==
    /\ new.dispatch_timestamp = old.dispatch_timestamp
    /\ IsSome(old.receive_timestamp) =>
          new.receive_timestamp = old.receive_timestamp
    /\ IsSome(old.state_update_timestamp) =>
          new.state_update_timestamp = old.state_update_timestamp
    /\ IsSome(old.acknowledge_timestamp) =>
          new.acknowledge_timestamp = old.acknowledge_timestamp

\* C5 (as claimed): once a timestamp of a transaction has been set, no later
\* ledger operation on the same id changes or clears it, for as long as the
\* transaction exists.
C5_TimestampsImmutable ==
    [][\A id \in DOMAIN transactions \cap DOMAIN transactions' :
          KeepsSetTimestamps(transactions[id], transactions'[id])]_vars

\* The age rule as the claim words it, as of time t: the transaction has an
\* acknowledge timestamp and is older than max_age_seconds, or it is older than
\* 2 x max_age_seconds; age is measured from the dispatch timestamp.
C8_Expired(tx, t) ==
    LET age == t - tx.dispatch_timestamp
    IN  \/ tx.acknowledge_timestamp # None /\ age > max_age_seconds * NanosPerSecond
        \/ age > 2 * max_age_seconds * NanosPerSecond

\* After a cycle that no ledger operation interleaved, no expired transaction
\* is left (the cycle is past its removal step or has completed).
C8_NoExpiredLeft ==
    (cl_clean /\ cl_pc \in {"cap", "idle"}) =>
        \A id \in DOMAIN transactions : ~C8_Expired(transactions[id], cl_now)

\* The removal step of such a cycle removes the expired transactions only and
\* changes no transaction it keeps.
C8_OnlyExpiredRemoved ==
    (cl_clean /\ cl_pc = "remove" /\ cl_pc' = "cap") =>
        /\ DOMAIN transactions' =
              {id \in DOMAIN transactions :
                  ~C8_Expired(transactions[id], cl_now)}
        /\ \A id \in DOMAIN transactions' : transactions'[id] = transactions[id]

\* C8: after a cleanup cycle with no ledger operation interleaved, the ledger
\* holds no transaction that is acknowledged and older than max_age_seconds and
\* none older than 2 x max_age_seconds; transactions that meet neither rule are
\* not removed by the age rule.
C8_CleanupAgeRule == []C8_NoExpiredLeft /\ [][C8_OnlyExpiredRemoved]_vars

\* C8 witness: a cycle completed undisturbed; it removed "a", acknowledged and
\* older than max_age, and kept "b", unacknowledged and just as old.
C8_Witness ==
    /\ cl_pc = "idle"
    /\ cl_clean
    /\ to_remove = {"a"}
    /\ DOMAIN transactions = {"b"}
    /\ transactions["b"].acknowledge_timestamp = None
    /\ cl_now - transactions["b"].dispatch_timestamp
          > max_age_seconds * NanosPerSecond

\* C9 (as claimed): when the ledger holds more than max_transactions after the
\* age-based eviction, the cycle leaves exactly max_transactions of them and
\* drops those with the oldest dispatch timestamps: every retained transaction
\* has a dispatch timestamp >= that of every dropped one.
C9_CapDropsOldest ==
    [][(/\ cl_pc = "cap" /\ cl_pc' = "idle"
        /\ Cardinality(DOMAIN transactions) > max_transactions) =>
          /\ Cardinality(DOMAIN transactions') = max_transactions
          /\ DOMAIN transactions' \subseteq DOMAIN transactions
          /\ \A kept \in DOMAIN transactions',
                dropped \in DOMAIN transactions \ DOMAIN transactions' :
                   transactions[kept].dispatch_timestamp
                      >= transactions[dropped].dispatch_timestamp]_vars

\* C17: record_receive on an id with no transaction creates a transaction whose
\* dispatch timestamp equals its receive timestamp and whose state-update and
\* acknowledge timestamps are absent; on an id with an existing transaction it
\* creates nothing and leaves that transaction's dispatch timestamp unchanged.
C17_ReceiveCreatesOrKeeps ==
    [][\A id \in ActionIds, ty \in LedgerTypes :
          RecordReceive(id, ty) =>
             IF id \in DOMAIN transactions
             THEN /\ DOMAIN transactions' = DOMAIN transactions
                  /\ transactions'[id].dispatch_timestamp
                        = transactions[id].dispatch_timestamp
             ELSE /\ DOMAIN transactions' = DOMAIN transactions \cup {id}
                  /\ transactions'[id].receive_timestamp
                        = Some(transactions'[id].dispatch_timestamp)
                  /\ transactions'[id].state_update_timestamp = None
                  /\ transactions'[id].acknowledge_timestamp = None]_vars

\* C17 witness: "a" was dispatched at 0 and received a second later, its
\* dispatch timestamp still 0; "b" was first seen by record_receive, two
\* seconds in, and carries that time as dispatch and as receive timestamp.
C17_Witness ==
    /\ DOMAIN transactions = {"a", "b"}
    /\ transactions["a"].dispatch_timestamp = 0
    /\ transactions["a"].receive_timestamp = Some(NanosPerSecond)
    /\ transactions["b"].dispatch_timestamp = 2 * NanosPerSecond
    /\ transactions["b"].receive_timestamp = Some(2 * NanosPerSecond)
    /\ transactions["b"].state_update_timestamp = None
    /\ transactions["b"].acknowledge_timestamp = None

\* C18: record_state_update and record_acknowledgement on an id that has no
\* transaction return success and leave the ledger unchanged: no transaction is
\* created and no other transaction is modified.
C18_UnknownIdNoOp ==
    [][\A id \in ActionIds \ DOMAIN transactions :
          (RecordStateUpdate(id) \/ RecordAcknowledgement(id)) =>
             /\ transactions' = transactions
             /\ ledger_ret' = Some(Ok(Unit))]_vars

\* C18 witness: a recording operation has returned Ok(()) and the ledger is
\* empty. record_dispatch and record_receive would have created a transaction
\* and nothing removes one here, so the operation was a state update or an
\* acknowledgement for an id the ledger does not hold.
C18_Witness ==
    /\ ledger_ret = Some(Ok(Unit))
    /\ transactions = EmptyMap

\* C19: calculate_metrics(id) on an existing transaction fails with
\* MissingData when its acknowledge timestamp or its receive timestamp is
\* absent, and the call leaves the ledger unchanged.
C19_MissingData ==
    [][\A id \in DOMAIN transactions :
          (/\ \/ transactions[id].acknowledge_timestamp = None
              \/ transactions[id].receive_timestamp = None
           /\ CalculateMetrics(id)) =>
             /\ ledger_ret' = Some(Err("MissingData"))
             /\ transactions' = transactions]_vars

\* C19 witness: the only transaction is acknowledged but was never received,
\* and calculate_metrics has returned MissingData for it.
C19_Witness ==
    /\ DOMAIN transactions = {"a"}
    /\ transactions["a"].acknowledge_timestamp # None
    /\ transactions["a"].receive_timestamp = None
    /\ ledger_ret = Some(Err("MissingData"))

\* C20 (as claimed): calculate_metrics on an id unknown to the ledger surfaces
\* a missing-data error.
C20_UnknownIdIsMissingData ==
    [][\A id \in ActionIds \ DOMAIN transactions :
          CalculateMetrics(id) => ledger_ret' = Some(Err("MissingData"))]_vars

\* C22: a transaction stays in the ledger after record_acknowledgement: a
\* transaction is removed only by a cleanup cycle (age rule or size cap), never
\* by completing its lifecycle.  Every step after which an id is gone from the
\* ledger is the removal step or the cap step of the cleanup task, and the
\* acknowledged transaction is in the ledger after its acknowledgement.
C22_RemovedByCleanupOnly ==
    [][/\ (DOMAIN transactions \ DOMAIN transactions' # {}) =>
             (cl_pc \in {"remove", "cap"} /\ cl_pc' # cl_pc)
       /\ \A id \in DOMAIN transactions :
             RecordAcknowledgement(id) =>
                /\ id \in DOMAIN transactions'
                /\ transactions'[id].acknowledge_timestamp = Some(now)]_vars

\* C22 witness: "a" was acknowledged, then a whole cleanup cycle ran with no
\* ledger operation in between, and "a" is still in the ledger.
C22_Witness ==
    /\ cl_pc = "idle"
    /\ cl_clean
    /\ "a" \in DOMAIN transactions
    /\ transactions["a"].acknowledge_timestamp # None
    /\ cl_now >= Unwrap(transactions["a"].acknowledge_timestamp)

----------------------------------------------------------------------------
(* Claims on the telemetry middleware *)

\* C1: in every reachable state, whatever hooks appended entries (pre-hook,
\* post-hook, IPC observation hooks, acknowledgment path) and in whatever
\* order, the length of the history is at most log_limit.
C1_HistoryBounded == Len(log_history) <= log_limit

\* C1 witness: appends of several hooks filled the history, an append to the
\* full history evicted, and the acknowledgment path's entry is the last one.
C1_Witness ==
    /\ log_limit >= 2
    /\ Len(log_history) = log_limit
    /\ n_appended > log_limit
    /\ log_history[1].context_id = ContextId("uuid", "c1")
    /\ log_history[Len(log_history)].context_id = ContextId("ipc-ack-", "a")

Min(a, b) == IF a <= b THEN a ELSE b

\* C2: after n appends to an empty history with limit L >= 1 the history holds
\* exactly the last min(n, L) appended entries in append order (the pushes
\* numbered n - min(n, L) + 1 .. n), the newest last: an append to a full
\* history evicts the minimum number of oldest entries.
C2_LastEntriesKept ==
    log_limit >= 1 =>
        /\ Len(log_history) = Min(n_appended, log_limit)
        /\ \A i \in DOMAIN log_history :
              log_history[i].seq = n_appended - Len(log_history) + i

\* C2 witness: the worked example scaled down, 4 appends with limit 2 leave
\* exactly the entries of appends 3 and 4.
C2_Witness ==
    /\ log_limit = 2
    /\ n_appended = 4
    /\ Len(log_history) = 2
    /\ log_history[1].seq = 3
    /\ log_history[2].seq = 4

\* An entry appended by the post-hook (after_action): a StateUpdated entry
\* under a pipeline context id.
IsPostHookEntry(e) == e.entry_type = "StateUpdated" /\ e.context_id[1] = "uuid"

\* The delta the claim expects for states S1 then S2: the keys of S2 absent
\* from S1 or with a different value, each with its S2 value; absent when no
\* key qualifies.
C10_ExpectedDelta(s1, s2) ==
    LET keys == {k \in DOMAIN s2.m : k \notin DOMAIN s1.m \/ s1.m[k] # s2.m[k]}
    IN  IF keys = {} THEN None ELSE Some(Obj([k \in keys |-> s2.m[k]]))

\* C25 (as claimed): a stored entry is never modified and the stored entries
\* keep their order; an entry leaves the history only as one of the oldest
\* entries evicted by an append to a history that has reached its bound.  The
\* model refutes it: clear_history empties the history at any length.
C25_LeavesByEvictionOnly ==
    [][\E k \in 0..Len(log_history) :
          LET kept == Len(log_history) - k
          IN  /\ Len(log_history') \in {kept, kept + 1}
              /\ SubSeq(log_history', 1, kept) =
                     SubSeq(log_history, k + 1, Len(log_history))
              /\ k > 0 => /\ Len(log_history) >= log_limit
                          /\ Len(log_history') = kept + 1]_vars

\* C10 (as claimed): for two consecutive post-hook invocations with
\* object-shaped states S1 then S2, the StateUpdated entry for S2 carries
\* exactly the expected delta.
C10_DeltaOfConsecutiveStates ==
    \A i, j \in DOMAIN log_history :
        (/\ i < j
         /\ IsPostHookEntry(log_history[i])
         /\ IsPostHookEntry(log_history[j])
         /\ \A k \in (i + 1)..(j - 1) : ~IsPostHookEntry(log_history[k])
         /\ IsObject(Unwrap(log_history[i].state))
         /\ IsObject(Unwrap(log_history[j].state))) =>
            log_history[j].state_delta =
                C10_ExpectedDelta(Unwrap(log_history[i].state),
                                  Unwrap(log_history[j].state))

----------------------------------------------------------------------------
(* Claims on the pipeline orchestrator *)

\* The call p ran a pre-hook, its i-th logged hook, that returned no action.
C3_CancelledAt(p, i) ==
    /\ hook_log[p][i].hook = "before_action"
    /\ hook_log[p][i].returned = None

C3_Cancelled(p) == \E i \in DOMAIN hook_log[p] : C3_CancelledAt(p, i)

\* Nothing of the call follows the cancelling pre-hook: no later pre-hook, no
\* mutation and no post-hook; the call is still in its pre-hook phase or has
\* returned, and what it returned is Ok(()).
C3_NothingAfterCancel ==
    \A p \in Procs : \A i \in DOMAIN hook_log[p] :
        C3_CancelledAt(p, i) =>
            /\ i = Len(hook_log[p])
            /\ pc[p] \in {"pre", "done"}
            /\ pc[p] = "done" => result[p] = Some(Ok(Unit))

\* A step of a cancelled call changes neither the shared state nor the ledger
\* and runs no hook.
C3_CancelledStepChangesNothing ==
    \A p \in Procs :
        (C3_Cancelled(p) /\ pc'[p] # pc[p]) =>
            /\ state' = state
            /\ transactions' = transactions
            /\ hook_log'[p] = hook_log[p]
            /\ log_history' = log_history

\* C3: if a pre-hook of process_action returns no action, no later
\* middleware's pre-hook runs, the call leaves the shared state unchanged, runs
\* no post-hook, records no state update in the ledger and returns success.
C3_CancelStopsProcessing ==
    []C3_NothingAfterCancel /\ [][C3_CancelledStepChangesNothing]_vars

\* C3 witness: the first of two middlewares cancelled an action with an id the
\* ledger tracks; the call has returned Ok(()), the telemetry middleware
\* registered after it saw nothing of the call, and the transaction has no
\* state-update timestamp.  The other call is in its pre-hook phase.
C3_Witness ==
    /\ middlewares = <<"cancel", "telemetry">>
    /\ pc["p1"] = "done"
    /\ result["p1"] = Some(Ok(Unit))
    /\ Len(hook_log["p1"]) = 1
    /\ C3_CancelledAt("p1", 1)
    /\ in_action["p1"].id = Some("a")
    /\ "a" \in DOMAIN transactions
    /\ transactions["a"].state_update_timestamp = None
    /\ \A i \in DOMAIN log_history : log_history[i].context_id # ContextOf("p1")
    /\ pc["p2"] = "pre"

\* The action the pre-hooks of mws[i..] hand on when given `action`; None when
\* one of them cancels.
RECURSIVE C4_FinalAction(_, _, _)
C4_FinalAction(mws, i, action) ==
    IF i > Len(mws) THEN Some(action)
    ELSE LET returned == before_action(mws[i], action)
         IN  IF IsSome(returned)
             THEN C4_FinalAction(mws, i + 1, Unwrap(returned))
             ELSE None

\* The pre-hooks of mws[i..] in registration order, each handed what the one
\* before it returned, up to the one that cancels.
RECURSIVE C4_PreHooks(_, _, _)
C4_PreHooks(mws, i, action) ==
    IF i > Len(mws) THEN <<>>
    ELSE LET returned == before_action(mws[i], action)
         IN  <<HookRecord("before_action", i, action, returned)>> \o
             (IF IsSome(returned)
              THEN C4_PreHooks(mws, i + 1, Unwrap(returned)) ELSE <<>>)

\* The order the claim prescribes for one action: all pre-hooks, then the
\* mutation with the final action, then all post-hooks with the final action.
C4_ExpectedHooks(mws, action) ==
    LET final == C4_FinalAction(mws, 1, action)
    IN  C4_PreHooks(mws, 1, action) \o
        (IF IsSome(final)
         THEN <<HookRecord("mutate", 0, Unwrap(final), None)>> \o
              [i \in 1..Len(mws) |->
                  HookRecord("after_action", i, Unwrap(final), None)]
         ELSE <<>>)

IsPrefix(a, b) == Len(a) <= Len(b) /\ a = SubSeq(b, 1, Len(a))

\* What a call has run so far is an initial part of the prescribed order, and
\* all of it once the call has returned.
C4_LogFollowsOrder ==
    \A p \in Procs :
        pc[p] # "idle" =>
            LET expected == C4_ExpectedHooks(middlewares, in_action[p])
            IN  /\ IsPrefix(hook_log[p], expected)
                /\ pc[p] = "done" => hook_log[p] = expected

\* The mutation step of a call applies the final action to the shared state.
C4_MutationUsesFinal ==
    \A p \in Procs :
        (pc[p] = "write" /\ pc'[p] = "read") =>
            state' = ApplyAction(state,
                        Unwrap(C4_FinalAction(middlewares, 1, in_action[p])))

\* C4: for one action, process_action runs the pre-hooks of all registered
\* middlewares in registration order, each receiving the action returned by
\* the previous one, then applies the state mutation using the final action,
\* then runs all post-hooks in registration order with that final action; no
\* hook of the action runs out of this order, whatever other calls are in
\* flight.
C4_HooksInOrder == []C4_LogFollowsOrder /\ [][C4_MutationUsesFinal]_vars

\* C4 witness: a call has run both pre-hooks, the mutation and both post-hooks
\* of a rewriting and a telemetry middleware, the second pre-hook and the
\* post-hooks on the rewritten action, while the other call is in flight
\* between its own mutation and its post-hooks.
C4_Witness ==
    /\ middlewares = <<"rewrite", "telemetry">>
    /\ pc["p1"] = "done"
    /\ Len(hook_log["p1"]) = 5
    /\ hook_log["p1"][2].action = Rewritten(in_action["p1"])
    /\ hook_log["p1"][5].hook = "after_action"
    /\ hook_log["p1"][5].action = Rewritten(in_action["p1"])
    /\ pc["p2"] = "read"

\* The key the claim names for a payload that is not an object: the action
\* type, each ':' turned into '_', in lower case.
C23_Key(action_type, key) ==
    /\ Len(key) = Len(action_type)
    /\ \A i \in DOMAIN action_type :
          key[i] = IF action_type[i] = ":" THEN "_"
                   ELSE to_lowercase(action_type[i])

\* The state `new` is the state `old` with `value` under `key` and every other
\* key as it was.
C23_Stored(old, new, key, value) ==
    /\ IsObject(new)
    /\ DOMAIN new.m = DOMAIN old.m \cup {key}
    /\ new.m[key] = value
    /\ \A k \in DOMAIN old.m \ {key} : new.m[k] = old.m[k]

\* C23: the state update of an action that was not cancelled, on a state that
\* is an object: an object payload sets each of its keys and leaves the other
\* keys as they were; any other payload is stored under the action type with
\* ':' replaced by '_' and in lower case; without payload the action type is
\* stored under last_action.
C23_StateUpdate ==
    [][\A p \in Procs :
          (/\ pc[p] = "write" /\ pc'[p] = "read"
           /\ IsSome(current_action[p]) /\ IsObject(state)) =>
             LET action == Unwrap(current_action[p])
             IN  IF ~IsSome(action.payload)
                 THEN C23_Stored(state, state', LastActionKey,
                                 Str(action.action_type))
                 ELSE IF IsObject(Unwrap(action.payload))
                 THEN LET m == Unwrap(action.payload).m
                      IN  /\ IsObject(state')
                          /\ DOMAIN state'.m = DOMAIN state.m \cup DOMAIN m
                          /\ \A k \in DOMAIN m : state'.m[k] = m[k]
                          /\ \A k \in DOMAIN state.m \ DOMAIN m :
                                state'.m[k] = state.m[k]
                 ELSE \E key \in DOMAIN state'.m :
                         /\ C23_Key(action.action_type, key)
                         /\ C23_Stored(state, state', key,
                                       Unwrap(action.payload))]_vars

\* An object payload and a number payload have updated one object state: it
\* holds the key of the object payload with its value, and the number under
\* the synthetic key of the action type "A:b".
C23_Witness ==
    /\ IsObject(state)
    /\ DOMAIN state.m = {KeyX, <<"a", "_", "b">>}
    /\ state.m[KeyX] = Num(1)
    /\ state.m[<<"a", "_", "b">>] = Num(2)

\* C27 (as claimed): the state the post-hooks of a call receive is the state
\* its own update produced: from the release of the write lock to the read
\* lock the post-hooks run under, the state does not change.  The model
\* refutes it: the write lock is released before the read lock is asked for,
\* and the update of another call or set_state gets in between.
C27_PostHooksSeeOwnUpdate ==
    [][\A p \in Procs : pc[p] = "read" => state' = state]_vars

\* C16 (as claimed): process_action never returns an error and is never aborted
\* because of a failure inside a telemetry operation (history append,
\* serialization, broadcast, telemetry bookkeeping for the action): no call
\* unwinds out of a telemetry hook, and every call that returned returned Ok.
C16_TelemetryNeverFailsCall ==
    \A p \in Procs :
        /\ pc[p] # "panicked"
        /\ IsSome(result[p]) => Unwrap(result[p]).ok

----------------------------------------------------------------------------
(* Claims on action tracking *)

\* C21: for an action without id, record_action_dispatch,
\* record_action_received and process_action never create or modify a ledger
\* transaction: every one of these calls, and every step of a process_action
\* call whose action has no id, leaves the ledger as it was.
C21_NoIdLeavesLedger ==
    [][/\ \A a \in UntrackedActions :
             (Z_record_action_dispatch(a) \/ Z_record_action_received(a)) =>
                 transactions' = transactions
       /\ \A p \in Procs :
             (/\ in_action'[p].id = None
              /\ (pc'[p] # pc[p] \/ idx'[p] # idx[p])) =>
                 transactions' = transactions]_vars

\* A process_action call for an action without id has run to its end and
\* changed the state, a tracking call has returned, and the ledger is empty.
C21_Witness ==
    /\ pc["p2"] = "done"
    /\ in_action["p2"] \in UntrackedActions
    /\ state # Obj(EmptyMap)
    /\ ledger_ret = Some(Ok(Unit))
    /\ transactions = EmptyMap

\* The lifecycle of the tracked action is complete: its process_action was not
\* cancelled and has returned, and the acknowledgement is recorded.
C28_LifecycleDone ==
    /\ pc["p1"] = "done"
    /\ ~C3_Cancelled("p1")
    /\ TrackedId \in DOMAIN transactions
    /\ transactions[TrackedId].acknowledge_timestamp # None

\* C28: after record_action_dispatch, record_action_received, a process_action
\* that is not cancelled and record_action_acknowledgement, in that order for
\* one identified action under a clock that never goes back, the transaction
\* has all four timestamps, dispatch <= receive <= state update <= acknowledge,
\* and calculate_metrics returns a Metrics value.
C28_CompleteLifecycle ==
    [][(C28_LifecycleDone /\ CalculateMetrics(TrackedId)) =>
          LET tx == transactions[TrackedId]
          IN  /\ IsSome(tx.receive_timestamp)
              /\ IsSome(tx.state_update_timestamp)
              /\ tx.dispatch_timestamp <= Unwrap(tx.receive_timestamp)
              /\ Unwrap(tx.receive_timestamp) <= Unwrap(tx.state_update_timestamp)
              /\ Unwrap(tx.state_update_timestamp) <= Unwrap(tx.acknowledge_timestamp)
              /\ ledger_ret'[1].ok
              /\ IsSome(ledger_ret'[1].value)]_vars

\* calculate_metrics has returned Metrics for a complete lifecycle in which
\* the clock did not move between the dispatch and the receipt.
C28_Witness ==
    /\ C28_LifecycleDone
    /\ ledger_ret # None /\ ledger_ret[1].ok
    /\ ledger_ret[1].value # None /\ ledger_ret[1].value # Unit
    /\ transactions[TrackedId].receive_timestamp =
           Some(transactions[TrackedId].dispatch_timestamp)

----------------------------------------------------------------------------
(* Claims on the performance metrics of a call *)

\* C24 (as claimed): every Metrics value produced has total_ms >= 0 and every
\* populated phase field >= 0; here, the Metrics extract_from_context returns.
\* The model refutes it: a negative number under a timing key is copied into
\* the Metrics as it is.
C24_MetricsNonNegative ==
    (e_metrics # None /\ Unwrap(e_metrics) # None) =>
        LET m == Unwrap(Unwrap(e_metrics))
        IN  /\ ~IsNegative(m.total_ms)
            /\ \A f \in {m.deserialization_ms, m.action_processing_ms,
                         m.state_update_ms, m.serialization_ms} :
                  IsSome(f) => ~IsNegative(Unwrap(f))

\* C29 (as claimed): with performance measurement enabled, the StateUpdated
\* entry the telemetry post-hook appended carries Metrics taken from the
\* timing keys of the call: total_ms is the recorded processing_time_ms, from
\* Medium detail on the deserialization, action-processing and state-update
\* fields are populated, and at High detail the serialization field as well.
\* The model refutes it: the post-hook runs before processing_time_ms,
\* action_processing_time_ms and serialization_time_ms are written.
C29_EntryCarriesRecordedTimings ==
    (/\ e_pc = "done"
     /\ e_config.measure_performance /\ e_config.include_in_logs
     /\ e_config.enabled) =>
        LET entry == log_history[Len(log_history)]
            m == Unwrap(entry.processing_metrics)
        IN  /\ entry.entry_type = "StateUpdated"
            /\ entry.processing_metrics # None
            /\ m.total_ms = e_ctx.metadata["processing_time_ms"].q
            /\ e_config.detail # "Low" =>
                  /\ m.deserialization_ms # None
                  /\ m.action_processing_ms # None
                  /\ m.state_update_ms # None
            /\ e_config.detail = "High" => m.serialization_ms # None

\* The metadata holds an entry under the key or under its older name.
C30_Present(metadata, key, alt) ==
    key \in DOMAIN metadata \/ alt \in DOMAIN metadata

\* The metadata holds a number or a numeric string under the key.
C30_Readable(metadata, key) ==
    /\ key \in DOMAIN metadata
    /\ \/ metadata[key].t \in {"number", "integer"}
       \/ metadata[key].t = "string" /\ parse_f64(metadata[key].s) # None

\* The optional fields of the Metrics m are gated by the detail level: none at
\* Low, the three phases from Medium on, each populated exactly when `has`
\* says the metadata has it, serialization_ms only at High.
C30_Gated(m, detail, has(_, _)) ==
    /\ detail = "Low" =>
          /\ m.deserialization_ms = None /\ m.action_processing_ms = None
          /\ m.state_update_ms = None /\ m.serialization_ms = None
    /\ detail # "Low" =>
          /\ m.deserialization_ms # None <=>
                has("deserialization_time_ms", "deserialization_ms")
          /\ m.action_processing_ms # None <=>
                has("action_processing_time_ms", "action_ms")
          /\ m.state_update_ms # None <=> has("state_update_time_ms", "state_ms")
    /\ detail = "Medium" => m.serialization_ms = None
    /\ detail = "High" =>
          (m.serialization_ms # None <=>
              has("serialization_time_ms", "serialization_ms"))

----------------------------------------------------------------------------
(* Claims on the textual encoding *)

\* C26: the textual encoding of an entry, or of an array of entries, gives for
\* every populated field of processing_metrics whose value was a numeric
\* string, an integer or a fractional number a JSON number, never a JSON
\* string: the text of the field is not quoted and reads back as the number
\* that was put in.
C26_MetricsAreNumbers ==
    (z_out # None /\ Unwrap(z_out).format = "json") =>
        \A i \in DOMAIN Unwrap(z_in).items :
            LET entry == Unwrap(z_in).items[i]
                text == Unwrap(z_out).items[i]
            IN  entry # None =>
                  \A f \in DOMAIN Unwrap(entry) \cap MetricFields :
                      LET value == Unwrap(entry)[f]
                          number ==
                              IF value.t = "string" THEN parse_f64(value.s)
                              ELSE IF value.t \in {"number", "integer"}
                              THEN Some(Reduce(value.q))
                              ELSE None
                      IN  number # None =>
                            /\ Unwrap(text)[f][1] # "\""
                            /\ parse_f64(Unwrap(text)[f]) = number

\* An array of two entries was encoded: the string "15.5" became 15.5, the
\* integer 5 became 5.0 and the string "-2.50" became -2.5.
C26_Witness ==
    /\ z_in = Some([shape |-> "array", items |->
         << Some("total_ms" :> JsonValue("string", <<0, 1>>, <<"1", "5", ".", "5">>)),
            Some(("total_ms" :> JsonValue("integer", <<5, 1>>, <<>>))
                 @@ ("state_update_ms" :>
                        JsonValue("string", <<0, 1>>, <<"-", "2", ".", "5", "0">>))) >>])
    /\ z_out = Some([format |-> "json", items |->
         << Some("total_ms" :> <<"1", "5", ".", "5">>),
            Some(("total_ms" :> <<"5", ".", "0">>)
                 @@ ("state_update_ms" :> <<"-", "2", ".", "5">>)) >>])

----------------------------------------------------------------------------
(* Claims on the WebSocket server *)

\* The initial message a connection builds is one frame holding one array with
\* the whole history as it stands when the handler reads it.
C11_SnapshotIsWholeHistory ==
    \A c \in Conns :
        Snapshot(c) =>
            /\ IsSome(h_msg'[c])
            /\ Unwrap(h_msg'[c]).data.shape = "array"
            /\ Unwrap(h_msg'[c]).data.items = log_history

\* The first message written to a connection is its initial message, and the
\* stream of entries has not started while nothing is written.
C11_FirstSentIsInitial ==
    \A c \in Conns :
        /\ sent[c] # <<>> => sent[c][1] = Unwrap(h_msg[c])
        /\ w_pc[c] # "none" => sent[c] # <<>>

\* C11: for every accepted viewer connection, the first message the server
\* sends on it is the entire history as it stands at that moment, as one
\* message, and it is sent before any streamed entry message on that
\* connection.
C11_HistoryFirst ==
    []C11_FirstSentIsInitial /\ [][C11_SnapshotIsWholeHistory]_vars

\* C11 witness: the viewer connected when the history held entries 1 and 2; it
\* was sent both in one message and then entry 3 as a streamed message.
C11_Witness ==
    /\ Len(sent["v1"]) = 2
    /\ sent["v1"][1].data.shape = "array"
    /\ Len(sent["v1"][1].data.items) = 2
    /\ sent["v1"][1].data.items[1].seq = 1
    /\ sent["v1"][1].data.items[2].seq = 2
    /\ sent["v1"][2].data.shape = "object"
    /\ sent["v1"][2].data.items[1].seq = 3

\* C12 (as claimed): the writer path of a connection terminates only on a
\* socket send error (the channel is never closed while the server lives),
\* never because the receiver lagged: a viewer that fell more than the channel
\* capacity behind goes on receiving.
C12_WriterEndsOnSendErrorOnly ==
    [][\A c \in Conns :
          (w_pc[c] # "ended" /\ w_pc'[c] = "ended") => w_pc[c] = "send"]_vars

\* C13: appending and broadcasting an entry always completes without waiting
\* for any viewer: whatever the viewer's state and the backlog of the channel,
\* the push of an add_log_entry call and the broadcast that follows it can
\* take their step.
C13_ProducerNeverWaits ==
    /\ (a_pc = "idle" /\ n_appended < MaxEntries) => ENABLED WsPush
    /\ a_pc = "broadcast" => ENABLED Broadcast

\* C13 witness: the viewer is registered and has not read more than the
\* channel keeps, its writer still waiting to run, and broadcast() has
\* returned for every entry.
C13_Witness ==
    /\ "v1" \in clients
    /\ w_pc["v1"] = "recv"
    /\ Lagged("v1")
    /\ a_pc = "idle"
    /\ n_appended = MaxEntries
    /\ ws_ret = Some(Ok(Unit))

\* C14: broadcast() called while no client is registered returns success
\* without serializing the entry, without sending on the fan-out channel and
\* without any socket I/O.
C14_EmptyRegistryNoOp ==
    [][(a_pc = "broadcast" /\ a_pc' = "idle" /\ clients = {}) =>
          /\ ws_ret' = Some(Ok(Unit))
          /\ n_serialized' = n_serialized
          /\ chan' = chan
          /\ sent' = sent]_vars

\* C14 witness: broadcast() has returned Ok(()) for two entries and nothing
\* was ever serialized, sent on the channel or written to a socket.
C14_Witness ==
    /\ a_pc = "idle"
    /\ n_appended = 2
    /\ ws_ret = Some(Ok(Unit))
    /\ n_serialized = 0
    /\ chan = <<>>
    /\ \A c \in Conns : sent[c] = <<>>

\* C15 (as claimed): whenever the handling of a viewer connection terminates,
\* for any reason, that client is no longer in the client registry.
C15_FinishedNotRegistered ==
    \A c \in Conns : h_pc[c] = "done" => c \notin clients

\* C31 (as claimed): when either the reader path or the writer path of a
\* viewer connection ends, the connection ends: once the handler has returned
\* the other path takes no step more, and no further entry is sent to that
\* viewer.
C31_ConnectionEnds ==
    [][\A c \in Conns :
          h_pc[c] = "done" =>
              /\ sent'[c] = sent[c]
              /\ rx_next'[c] = rx_next[c]
              /\ w_pc'[c] = w_pc[c]
              /\ r_pc'[c] = r_pc[c]]_vars

----------------------------------------------------------------------------
(* Claims on the start of the WebSocket server *)

\* The bind attempts start() may make, in order: the configured address and,
\* unless that is the default host, the default host.
C32_Permitted ==
    IF bind_address = DefaultBindAddress
    THEN <<bind_address>>
    ELSE <<bind_address, DefaultBindAddress>>

\* The attempts made are a prefix of the permitted ones, all on one port, and
\* every attempt but the last failed.
C32_AttemptsInOrder ==
    /\ Len(s_binds) <= Len(C32_Permitted)
    /\ \A i \in DOMAIN s_binds :
          /\ s_binds[i].host = C32_Permitted[i]
          /\ s_binds[i].port = s_binds[1].port
          /\ i < Len(s_binds) => ~s_binds[i].ok

\* start() has failed exactly when every permitted attempt was made and
\* failed; it then returned the bind error and accepted nothing.
C32_FailsAfterAllAttempts ==
    /\ s_pc = "failed" <=>
          /\ Len(s_binds) = Len(C32_Permitted)
          /\ \A i \in DOMAIN s_binds : ~s_binds[i].ok
    /\ s_pc = "failed" <=> s_ret = Some(Err("WebSocket"))
    /\ s_ret # None => s_spawned = 0 /\ s_accept_errors = 0
    /\ s_pc = "fallback" => Len(s_binds) = 1 /\ ~s_binds[1].ok
    /\ s_pc = "listening" <=> (s_binds # <<>> /\ s_binds[Len(s_binds)].ok)

\* After a successful bind the loop goes on whatever the accepts returned.
C32_AcceptLoopGoesOn ==
    s_pc = "listening" =>
        /\ s_ret = None
        /\ s_spawned < MaxAccepts => ENABLED AcceptConnection
        /\ s_accept_errors < MaxAcceptErrors => ENABLED AcceptError

\* C32: start() fails with a bind error only after every permitted attempt has
\* failed: with the default loopback host one failed bind is an error; with a
\* non-default host a failed bind is retried exactly once on loopback and
\* start() fails only if that retry fails too; after a failure no connection
\* is ever accepted, and after a successful bind an accept error does not stop
\* the accept loop.
C32_BindFailure ==
    /\ C32_AttemptsInOrder
    /\ C32_FailsAfterAllAttempts
    /\ C32_AcceptLoopGoesOn

\* C32 witness: a server configured with 0.0.0.0 failed to bind it, bound the
\* loopback address on the same port, and after failed accepts accepted a
\* connection.
C32_Witness ==
    /\ bind_address = "0.0.0.0"
    /\ s_binds = <<BindAttempt("0.0.0.0", 9000, FALSE),
                   BindAttempt(DefaultBindAddress, 9000, TRUE)>>
    /\ s_accept_errors = 2
    /\ s_spawned = 1
    /\ s_pc = "listening"

----------------------------------------------------------------------------
(* Claims on the lock discipline *)

\* C33: under fair scheduling, every process_action call eventually returns,
\* for any number of concurrently in-flight actions, set_state calls, cleanup
\* cycles and viewer connections: no interleaving of acquisitions of the state
\* lock, the ledger lock, the history lock and the client-registry lock
\* deadlocks (hooks assumed to terminate).
C33_EveryCallReturns ==
    \A p \in Procs : (l_pc[p] # 0) ~> (l_pc[p] = 0)

\* C33 witness: one call holds the state read guard for its post-hooks, the
\* other call waits for the state write guard and a set_state call waits
\* behind it, while a cleanup cycle and a viewer connection are under way.
C33_Witness ==
    /\ l_held["state"] = {<<"p1", "R">>}
    /\ l_pc["p1"] > 5
    /\ l_queue["state"] = <<<<"p2", "W">>, <<"s1", "W">>>>
    /\ l_pc["c1"] = 2
    /\ l_pc["v1"] = 2

\* The entry the last push stored.
C34_Pushed == log_history'[Len(log_history')]

\* A call of track_action_acknowledged_with_transaction completes and pushes
\* one StateUpdated entry under ipc-ack-<action id> with the metrics
\* calculate_from_transaction gives for the transaction, None included.
C34_CanonicalEntry ==
    \A id \in ActionIds, tx \in TelemetryTransactions :
        T_track_action_acknowledged_with_transaction(id, tx) =>
            /\ t_panicked' = t_panicked
            /\ n_appended' = n_appended + 1
            /\ log_history' # <<>>
            /\ C34_Pushed.seq = n_appended'
            /\ C34_Pushed.entry_type = "StateUpdated"
            /\ C34_Pushed.context_id = ContextId("ipc-ack-", id)
            /\ C34_Pushed.processing_metrics = calculate_from_transaction(tx).value

\* An entry pushed by one of the four observational hooks carries no metrics.
C34_HooksWithoutMetrics ==
    (/\ \/ \E a \in TelemetryActions : T_record_action_dispatch(a)
        \/ \E a \in TelemetryActions : T_record_action_received(a)
        \/ \E a \in TelemetryActions, s \in TelemetryStates :
              T_record_state_update(a, s)
        \/ \E id \in ActionIds : T_record_action_acknowledgement(id)
     /\ n_appended' = n_appended + 1)
        => C34_Pushed.processing_metrics = None

\* C34 (as claimed): track_action_acknowledged_with_transaction appends
\* exactly one StateUpdated entry with context id ipc-ack-<action id> whose
\* processing_metrics equal the result of calculate_from_transaction on the
\* given transaction (absent when that result is None), and it never fails;
\* the observational hooks append entries that carry no metrics.
C34_CanonicalAcknowledgement ==
    [][C34_CanonicalEntry /\ C34_HooksWithoutMetrics]_vars

----------------------------------------------------------------------------
(* Claims on the delivery of entries to a viewer.                             *)

\* The number of the newest entry in the initial replay of the connection, 0
\* for an empty replay.
C35_SnapshotLast(c) ==
    LET items == Unwrap(h_msg[c]).data.items
    IN  IF items = <<>> THEN 0 ELSE items[Len(items)].seq

\* The snapshot of the connection is taken, its handler has not returned, its
\* writer has not stopped and its receiver is within the channel capacity.
C35_KeepsUp(c) ==
    /\ h_pc[c] \in {"initial", "select"}
    /\ w_pc[c] # "ended"
    /\ ~Lagged(c)

\* The numbers of the entries written to the connection as stream frames.
C35_Streamed(c) ==
    {sent[c][i].data.items[1].seq :
        i \in {j \in DOMAIN sent[c] : sent[c][j].data.shape = "object"}}

\* The numbers of the entries the writer holds or its receiver has yet to
\* take.
C35_Queued(c) ==
    {chan[i].items[1].seq : i \in {j \in DOMAIN chan : j >= rx_next[c]}}
        \cup (IF w_pc[c] = "send" THEN {Unwrap(w_msg[c]).items[1].seq} ELSE {})

\* The numbers of the entries whose add_log_entry call has broadcast.
C35_Broadcast == {s \in 1..n_appended : s < n_appended \/ a_pc = "idle"}

\* C35: a viewer that keeps up misses no entry: every entry appended after
\* the viewer's history snapshot and broadcast is written to the viewer or
\* waits in its receiver, as long as the viewer stays connected and is never
\* more than the channel capacity behind.
C35_NoEntryMissed ==
    \A c \in Conns :
        C35_KeepsUp(c) =>
            \A s \in C35_Broadcast :
                s > C35_SnapshotLast(c) =>
                    s \in C35_Streamed(c) \cup C35_Queued(c)

\* A viewer whose replay held an entry has since been sent a newer entry
\* and has another waiting in its receiver.
C35_Witness ==
    \E c \in Conns :
        /\ C35_KeepsUp(c)
        /\ h_pc[c] = "select"
        /\ C35_SnapshotLast(c) = 1
        /\ 2 \in C35_Streamed(c)
        /\ 3 \in C35_Queued(c)
        /\ 3 \in C35_Broadcast

----------------------------------------------------------------------------
(* Claims on the fan-out under concurrent logging.                            *)

\* The numbers of the entries written to the connection as stream frames, in
\* the order of writing.
C36_StreamOrder(c) ==
    LET frames == SelectSeq(sent[c], LAMBDA msg : msg.data.shape = "object")
    IN  [i \in DOMAIN frames |-> frames[i].data.items[1].seq]

\* The numbers of the entries sent on the channel, in the order of sending.
C36_ChannelOrder == [i \in DOMAIN chan |-> chan[i].items[1].seq]

C36_Ascending(numbers) ==
    \A i, j \in DOMAIN numbers : i < j => numbers[i] < numbers[j]

\* C36 (as claimed): entries are sent on the fan-out channel in the order in
\* which they were appended to the history, also when several tasks append
\* concurrently, and no viewer is sent two streamed entries in the opposite
\* order of their positions in the history.
C36_HistoryOrderKept ==
    /\ C36_Ascending(C36_ChannelOrder)
    /\ \A c \in Conns : C36_Ascending(C36_StreamOrder(c))

----------------------------------------------------------------------------
(* Claims on the cleanup cycle and concurrent ledger calls.                   *)

\* C37 (as claimed): the age rule of a cleanup cycle removes a transaction
\* only if the transaction stored under that id at the moment of removal is
\* itself expired; one re-dispatched or newly created under the id between
\* the scan and the removal is not removed by that cycle.
C37_RemovesOnlyExpired ==
    [][CleanupRemove =>
          \A id \in DOMAIN transactions \ DOMAIN transactions' :
              ShouldRemove(transactions[id], now)]_vars

----------------------------------------------------------------------------
(* Claims on concurrent process_action calls.                                 *)

\* The keys an action writes to an object-shaped state, with their values:
\* the members of an object payload, the synthetic key for any other payload,
\* last_action for no payload.
C38_Writes(action) ==
    IF IsSome(action.payload)
    THEN IF IsObject(Unwrap(action.payload))
         THEN Unwrap(action.payload).m
         ELSE [k \in {SyntheticKey(action.action_type)} |-> Unwrap(action.payload)]
    ELSE [k \in {LastActionKey} |-> Str(action.action_type)]

\* The calls that have updated the state, and the action each applied.
C38_Updated ==
    {p \in Procs : \E i \in DOMAIN hook_log[p] : hook_log[p][i].hook = "mutate"}

C38_Applied(p) ==
    hook_log[p][CHOOSE i \in DOMAIN hook_log[p] :
                    hook_log[p][i].hook = "mutate"].action

\* C38: concurrent process_action calls never lose a state update: when the
\* non-cancelled actions applied so far write pairwise disjoint keys to the
\* object-shaped state, and set_state is not called, the state holds every
\* written key with its written value.
C38_NoLostUpdate ==
    (\A p, q \in C38_Updated :
        p # q => DOMAIN C38_Writes(C38_Applied(p))
                    \cap DOMAIN C38_Writes(C38_Applied(q)) = {})
    => /\ IsObject(state)
       /\ \A p \in C38_Updated :
             \A k \in DOMAIN C38_Writes(C38_Applied(p)) :
                 /\ k \in DOMAIN state.m
                 /\ state.m[k] = C38_Writes(C38_Applied(p))[k]

\* Both calls have returned after updating the state with disjoint keys: the
\* two written keys are in the state.
C38_Witness ==
    /\ C38_Updated = Procs
    /\ \A p \in Procs : pc[p] = "done"
    /\ DOMAIN C38_Writes(C38_Applied("p1")) = {KeyX}
    /\ DOMAIN C38_Writes(C38_Applied("p2")) = {LastActionKey}
    /\ hook_log["p1"][1].hook = "before_action"
    /\ DOMAIN state.m = {KeyX, LastActionKey}

----------------------------------------------------------------------------
(* Claims on the completion of add_log_entry.                                 *)

\* C39 (as claimed): appending an entry to the history completes without
\* aborting for every log_limit, 0 included, and for every history length,
\* also right after clear_history: no call of add_log_entry panics.
C39_AppendNeverAborts == t_panicked = FALSE

----------------------------------------------------------------------------
(* Claims on the order of a call's entries in the history.                    *)

\* The positions in the history of the entries of one type that a call's
\* hooks logged under its context id.
C40_Positions(p, type) ==
    {i \in DOMAIN log_history :
        /\ log_history[i].context_id = ContextOf(p)
        /\ log_history[i].entry_type = type}

\* A pre-hook of the call returned None.
C40_Cancelled(p) ==
    \E i \in DOMAIN hook_log[p] :
        /\ hook_log[p][i].hook = "before_action"
        /\ hook_log[p][i].returned = None

\* C40: in the history the ActionDispatched entry of a call's pre-hook
\* precedes the StateUpdated entry with the same context id whenever both are
\* present, under any interleaving of concurrent calls; and the history never
\* holds a StateUpdated entry under the context id of a call that a pre-hook
\* cancelled.
C40_DispatchedBeforeUpdated ==
    \A p \in Procs :
        /\ \A i \in C40_Positions(p, "ActionDispatched"),
              j \in C40_Positions(p, "StateUpdated") : i < j
        /\ C40_Cancelled(p) => C40_Positions(p, "StateUpdated") = {}

\* The history holds the two entries of the call p1, the second pushed while
\* the call p2 was between its pre-hooks and its post-hooks.
C40_Witness ==
    /\ C40_Positions("p1", "ActionDispatched") # {}
    /\ C40_Positions("p1", "StateUpdated") # {}
    /\ n_appended = 3
    /\ pc["p2"] \in {"pre", "write", "read"}
    /\ hook_log["p2"] # <<>>

====
